---- MODULE Spec2Model ----
(***************************************************************************)
(* meHouseApp: house membership, ownership and task permissions.          *)
(*                                                                         *)
(* The store is the relational schema of the init migration (houses,      *)
(* house_members, tasks, task_assignees, categories) with its unique      *)
(* indexes and foreign keys.  HouseService and TaskService are modelled   *)
(* statement by statement; the task routes include the requireHouseMember *)
(* middleware that resolves the actor's membership.                       *)
(***************************************************************************)
EXTENDS Integers, Sequences, FiniteSets, TLC

\* ---------------------------------------------------------------- bounds
MaxUsers == 2
MaxHouses == 1
MaxNames == 2
MaxMembers == 3
MaxTasks == 1
MaxAssignees == 2
MaxClock == 1
MaxReqs == 2
MaxTx == 1
MaxListTasks == 3

Users == 1..MaxUsers
HouseIds == 1..MaxHouses
DisplayNames == 1..MaxNames
MemberIds == 1..MaxMembers
TaskIds == 1..MaxTasks
ReqIds == 1..MaxReqs
TxIds == 1..MaxTx

Roles == {"OWNER", "MEMBER"}
TaskStatuses == {"PENDING", "COMPLETED"}
TaskPriorities == {"LOW", "MEDIUM", "HIGH"}

\* null and undefined of the source
Null == 0
Undefined == -1

\* assigneeIdsSchema: at most 10 assignees
AssigneeCap == 10

VARIABLES
  houses,        \* ids of the rows of table houses
  houseNames,    \* column name of table houses, by house id
  members,       \* rows of table house_members
  categories,    \* rows of table categories
  tasks,         \* rows of table tasks
  assignees,     \* rows of table task_assignees, as <<taskId, houseMemberId>>
  nextHouseId,   \* next fresh house id (uuid generation)
  nextMemberId,  \* next fresh house member id
  nextTaskId,    \* next fresh task id
  clock,         \* wall clock read by new Date()
  reqs,          \* in-flight HouseService requests (interleaved specification)
  last           \* the last completed call: operation, arguments, outcome, store before it

vars == <<houses, houseNames, members, categories, tasks, assignees, nextHouseId,
          nextMemberId, nextTaskId, clock, reqs, last>>

\* ------------------------------------------------------------ the store
Store == [houses |-> houses, names |-> houseNames, members |-> members,
          categories |-> categories, tasks |-> tasks, assignees |-> assignees]

HouseMemberRow(id, userId, houseId, displayName, role) ==
  [id |-> id, userId |-> userId, houseId |-> houseId,
   displayName |-> displayName, role |-> role]

\* prisma.houseMember.findUnique({ where: { userId_houseId } })
FindMemberByUserHouse(ms, userId, houseId) ==
  {m \in ms : m.userId = userId /\ m.houseId = houseId}

\* prisma.houseMember.count({ where: { houseId, role: "OWNER" } })
OwnerCount(ms, houseId) ==
  Cardinality({m \in ms : m.houseId = houseId /\ m.role = "OWNER"})

MembersOf(ms, houseId) == {m \in ms : m.houseId = houseId}

\* unique indexes house_members_userId_houseId_key and
\* house_members_displayName_houseId_key
MemberInsertAllowed(ms, row) ==
  /\ \A m \in ms : ~(m.userId = row.userId /\ m.houseId = row.houseId)
  /\ \A m \in ms : ~(m.displayName = row.displayName /\ m.houseId = row.houseId)

\* tasks_createdById_fkey is ON DELETE SET NULL on a NOT NULL column: deleting a
\* house member that still is the creator of a task is rejected by the store.
MemberDeleteRejected(ts, memberId) ==
  \E t \in ts : t.createdById = memberId

\* DELETE of a house: house_members_houseId_fkey (ON DELETE CASCADE) is the
\* first foreign key on houses and its trigger runs first; the delete of the
\* members sets tasks.createdById to NULL in the tasks they created, which
\* tasks_houseId_fkey has not removed yet, and NOT NULL rejects it.
HouseDeleteRejected(ts, ms, houseId) ==
  \E m \in ms : m.houseId = houseId /\ MemberDeleteRejected(ts, m.id)

AssigneesWithoutMemberMutant(as, memberId) == as
\* task_assignees_houseMemberId_fkey ON DELETE CASCADE
AssigneesWithoutMember(as, memberId) == {a \in as : a[2] # memberId}

AssigneesWithoutTasksMutant(as, taskIds) == as
\* task_assignees_taskId_fkey ON DELETE CASCADE
AssigneesWithoutTasks(as, taskIds) == {a \in as : a[1] \notin taskIds}

\* ------------------------------------------------------- call recording
\* a query parameter of the URL: given or not, and its text, one character
\* per element
QueryParam(given, text) == [given |-> given, text |-> text]
Absent == QueryParam(FALSE, <<>>)

\* req.query of GET /:id/tasks
NoQuery ==
  [status |-> "", priority |-> "", assignedToMe |-> "", createdByMe |-> "",
   categoryId |-> Undefined, overdue |-> "", page |-> Absent, limit |-> Absent]

\* the filters of a request without query, as getHouseTasks destructures them
NoFilters ==
  [status |-> "", priority |-> "", assignedToMe |-> FALSE,
   createdByMe |-> FALSE, categoryId |-> Undefined, overdue |-> FALSE,
   page |-> 1, limit |-> 20]

NoArgs == [house |-> 0, user |-> 0, role |-> "", name |-> 0, task |-> 0,
           ids |-> <<>>, status |-> "", cat |-> 0, actor |-> 0, mine |-> FALSE,
           by |-> 0, query |-> NoQuery, filters |-> NoFilters, now |-> 0,
           data |-> <<>>]

\* the pagination object of a list response
NoPagination == [page |-> 0, limit |-> 0, total |-> 0, pages |-> 0]

\* a call that answers with a page of a list
CallListing(op, args, result, returned, pagination) ==
  [op |-> op, args |-> args, result |-> result, returned |-> returned,
   pagination |-> pagination, pre |-> Store]

\* a call that answers with data: returned is the list of ids in the body
CallReturning(op, args, result, returned) ==
  CallListing(op, args, result, returned, NoPagination)

Call(op, args, result) == CallReturning(op, args, result, <<>>)

NoCall == [op |-> "none", args |-> NoArgs, result |-> "", returned |-> <<>>,
           pagination |-> NoPagination,
           pre |-> [houses |-> {}, names |-> <<>>, members |-> {},
                    categories |-> {}, tasks |-> {}, assignees |-> {}]]

\* Calls run to completion one after the other: a call starts when the
\* response of the previous one has been sent.
Idle == last.op = "none"

\* res.json(...) / errorHandler: the response leaves, the next request may start
Respond ==
  /\ last.op # "none"
  /\ last' = NoCall
  /\ UNCHANGED <<houses, houseNames, members, categories, tasks, assignees, nextHouseId,
                 nextMemberId, nextTaskId, clock, reqs>>

\* --------------------------------------------------------- HouseService
\* data.name of the createHouse requests
NewHouseName == 1

OwnerMemberRoleMutant == "MEMBER"
\* role of the membership createHouse inserts for the creator
OwnerMemberRole == "OWNER"

createHouse(userId, displayName) ==
  /\ Idle
  /\ nextHouseId <= MaxHouses
  /\ nextMemberId <= MaxMembers
  /\ LET houseId == nextHouseId
         houseMember == HouseMemberRow(nextMemberId, userId, houseId,
                                       displayName, OwnerMemberRole)
         args == [NoArgs EXCEPT !.user = userId, !.name = displayName,
                                !.house = houseId]
     IN IF MemberInsertAllowed(members, houseMember)
        THEN /\ houses' = houses \cup {houseId}
             /\ houseNames' = [h \in houses \cup {houseId} |->
                                IF h = houseId THEN NewHouseName ELSE houseNames[h]]
             /\ members' = members \cup {houseMember}
             /\ nextHouseId' = nextHouseId + 1
             /\ nextMemberId' = nextMemberId + 1
             /\ last' = Call("createHouse", args, "ok")
        ELSE \* the transaction rolls back the house insert
             /\ UNCHANGED <<houses, houseNames, members, nextHouseId, nextMemberId>>
             /\ last' = Call("createHouse", args, "P2002")
  /\ UNCHANGED <<categories, tasks, assignees, nextTaskId, clock, reqs>>

RemoveHitsLastOwnerUnchecked(targetMember, ownerCount) == FALSE
RemoveHitsLastOwnerMutant(targetMember, ownerCount) ==
  targetMember.role = "OWNER" /\ ownerCount < 1
\* removeMember: "Check if trying to remove the last OWNER"
RemoveHitsLastOwner(targetMember, ownerCount) ==
  targetMember.role = "OWNER" /\ ownerCount <= 1

DemoteHitsLastOwnerStrict(targetMember, newRole, ownerCount) ==
  targetMember.role = "OWNER" /\ newRole # "OWNER" /\ ownerCount <= 2
DemoteHitsLastOwnerMutant(targetMember, newRole, ownerCount) ==
  targetMember.role = "OWNER" /\ newRole # "OWNER" /\ ownerCount < 1
\* updateMemberRole: "Check if trying to demote the last OWNER"
DemoteHitsLastOwner(targetMember, newRole, ownerCount) ==
  targetMember.role = "OWNER" /\ newRole # "OWNER" /\ ownerCount <= 1

\* base: what the route has recorded of the request (its actor)
removeMemberBy(base, houseId, targetUserId) ==
  /\ Idle
  /\ LET found == FindMemberByUserHouse(members, targetUserId, houseId)
         args == [base EXCEPT !.house = houseId, !.user = targetUserId]
     IN IF found = {}
        THEN /\ last' = Call("removeMember", args, "404")
             /\ UNCHANGED <<members, assignees>>
        ELSE LET targetMember == CHOOSE m \in found : TRUE
             IN IF RemoveHitsLastOwner(targetMember, OwnerCount(members, houseId))
                THEN /\ last' = Call("removeMember", args, "422")
                     /\ UNCHANGED <<members, assignees>>
                ELSE IF MemberDeleteRejected(tasks, targetMember.id)
                THEN /\ last' = Call("removeMember", args, "500")
                     /\ UNCHANGED <<members, assignees>>
                ELSE /\ members' = members \ {targetMember}
                     /\ assignees' = AssigneesWithoutMember(assignees, targetMember.id)
                     /\ last' = Call("removeMember", args, "ok")
  /\ UNCHANGED <<houses, houseNames, categories, tasks, nextHouseId, nextMemberId,
                 nextTaskId, clock, reqs>>

removeMember(houseId, targetUserId) ==
  removeMemberBy(NoArgs, houseId, targetUserId)

WithRole(ms, targetMember, newRole) ==
  (ms \ {targetMember}) \cup {[targetMember EXCEPT !.role = newRole]}

updateMemberRoleBy(base, houseId, targetUserId, newRole) ==
  /\ Idle
  /\ LET found == FindMemberByUserHouse(members, targetUserId, houseId)
         args == [base EXCEPT !.house = houseId, !.user = targetUserId,
                                !.role = newRole]
     IN IF found = {}
        THEN /\ last' = Call("updateMemberRole", args, "404")
             /\ UNCHANGED members
        ELSE LET targetMember == CHOOSE m \in found : TRUE
             IN IF DemoteHitsLastOwner(targetMember, newRole,
                                       OwnerCount(members, houseId))
                THEN /\ last' = Call("updateMemberRole", args, "422")
                     /\ UNCHANGED members
                ELSE /\ members' = WithRole(members, targetMember, newRole)
                     /\ last' = Call("updateMemberRole", args, "ok")
  /\ UNCHANGED <<houses, houseNames, categories, tasks, assignees, nextHouseId,
                 nextMemberId, nextTaskId, clock, reqs>>

updateMemberRole(houseId, targetUserId, newRole) ==
  updateMemberRoleBy(NoArgs, houseId, targetUserId, newRole)

deleteHouseBy(base, houseId) ==
  /\ Idle
  /\ LET args == [base EXCEPT !.house = houseId]
     IN IF houseId \notin houses
        THEN /\ last' = Call("deleteHouse", args, "404")
             /\ UNCHANGED <<houses, houseNames, members, categories, tasks, assignees>>
        ELSE IF HouseDeleteRejected(tasks, members, houseId)
        THEN /\ last' = Call("deleteHouse", args, "500")
             /\ UNCHANGED <<houses, houseNames, members, categories, tasks, assignees>>
        ELSE \* ON DELETE CASCADE from houses to house_members, tasks,
             \* categories, and from those to task_assignees
             LET goneTasks == {t.id : t \in {x \in tasks : x.houseId = houseId}}
                 goneMembers == {m.id : m \in MembersOf(members, houseId)}
             IN /\ houses' = houses \ {houseId}
                /\ houseNames' = [h \in houses \ {houseId} |-> houseNames[h]]
                /\ members' = {m \in members : m.houseId # houseId}
                /\ categories' = {c \in categories : c.houseId # houseId}
                /\ tasks' = {t \in tasks : t.houseId # houseId}
                /\ assignees' = {a \in assignees :
                                   a[1] \notin goneTasks /\ a[2] \notin goneMembers}
                /\ last' = Call("deleteHouse", args, "ok")
  /\ UNCHANGED <<nextHouseId, nextMemberId, nextTaskId, clock, reqs>>

deleteHouse(houseId) == deleteHouseBy(NoArgs, houseId)

\* updateHouse: the name is written when data.name is given
updateHouseBy(base, houseId, data) ==
  /\ Idle
  /\ LET args == [base EXCEPT !.house = houseId, !.name = data.name]
     IN IF houseId \notin houses
        THEN /\ last' = Call("updateHouse", args, "404")
             /\ UNCHANGED houseNames
        ELSE /\ houseNames' = IF data.name # Undefined
                              THEN [houseNames EXCEPT ![houseId] = data.name]
                              ELSE houseNames
             /\ last' = Call("updateHouse", args, "ok")
  /\ UNCHANGED <<houses, members, categories, tasks, assignees, nextHouseId,
                 nextMemberId, nextTaskId, clock, reqs>>

updateHouse(houseId, data) == updateHouseBy(NoArgs, houseId, data)

\* house_members ordered by role desc (OWNER first), then by creation
RECURSIVE OrderedMembers(_)
OrderedMembers(S) ==
  IF S = {} THEN <<>>
  ELSE LET first == CHOOSE m \in S : \A o \in S \ {m} :
                      \/ m.role = "OWNER" /\ o.role # "OWNER"
                      \/ m.role = o.role /\ m.id < o.id
       IN <<first.id>> \o OrderedMembers(S \ {first})

\* getHouseMembers: the member ids of the house, in the order of the answer
getHouseMembersBy(base, houseId) ==
  /\ Idle
  /\ last' = CallReturning("getHouseMembers", [base EXCEPT !.house = houseId],
                           "ok", OrderedMembers(MembersOf(members, houseId)))
  /\ UNCHANGED <<houses, houseNames, members, categories, tasks, assignees,
                 nextHouseId, nextMemberId, nextTaskId, clock, reqs>>

\* getHouseById: the house with its members included
getHouseByIdBy(base, houseId) ==
  /\ Idle
  /\ LET args == [base EXCEPT !.house = houseId]
     IN IF houseId \notin houses
        THEN last' = Call("getHouseById", args, "404")
        ELSE last' = CallReturning("getHouseById", args, "ok", <<houseId>>)
  /\ UNCHANGED <<houses, houseNames, members, categories, tasks, assignees,
                 nextHouseId, nextMemberId, nextTaskId, clock, reqs>>

\* houseMembers of the user, newest first, mapped to their houses
RECURSIVE HousesNewestFirst(_)
HousesNewestFirst(S) ==
  IF S = {} THEN <<>>
  ELSE LET first == CHOOSE m \in S : \A o \in S : o.id <= m.id
       IN <<first.houseId>> \o HousesNewestFirst(S \ {first})

\* GET /: getUserHouses of the authenticated user
getUserHouses(userId) ==
  /\ Idle
  /\ last' = CallReturning("getUserHouses", [NoArgs EXCEPT !.by = userId], "ok",
                           HousesNewestFirst({m \in members : m.userId = userId}))
  /\ UNCHANGED <<houses, houseNames, members, categories, tasks, assignees,
                 nextHouseId, nextMemberId, nextTaskId, clock, reqs>>

\* ------------------------------------------------ seeders (join a house)
seedHouseMember(houseId, userId, displayName, role) ==
  /\ Idle
  /\ houseId \in houses
  /\ nextMemberId <= MaxMembers
  /\ LET args == [NoArgs EXCEPT !.house = houseId, !.user = userId,
                                !.name = displayName, !.role = role]
         row == HouseMemberRow(nextMemberId, userId, houseId, displayName, role)
     IN IF FindMemberByUserHouse(members, userId, houseId) # {}
        THEN /\ last' = Call("seedHouseMember", args, "skipped")
             /\ UNCHANGED <<members, nextMemberId>>
        ELSE IF ~MemberInsertAllowed(members, row)
        THEN /\ last' = Call("seedHouseMember", args, "P2002")
             /\ UNCHANGED <<members, nextMemberId>>
        ELSE /\ members' = members \cup {row}
             /\ nextMemberId' = nextMemberId + 1
             /\ last' = Call("seedHouseMember", args, "ok")
  /\ UNCHANGED <<houses, houseNames, categories, tasks, assignees, nextHouseId,
                 nextTaskId, clock, reqs>>

\* ------------------------------------------------------------ task rows
TaskRow(id, title, description, status, priority, dueDate, completedAt, houseId, categoryId, createdById) ==
  [id |-> id, title |-> title, description |-> description, status |-> status,
   priority |-> priority, dueDate |-> dueDate, completedAt |-> completedAt,
   houseId |-> houseId, categoryId |-> categoryId, createdById |-> createdById]

CategoryRow(id, houseId) == [id |-> id, houseId |-> houseId]

\* an optional value that is undefined becomes NULL in the row
OrNull(v) == IF v = Undefined THEN Null ELSE v

Range(seq) == {seq[i] : i \in 1..Len(seq)}

\* task.assignees of the include: the houseMemberId of the task's assignments
AssigneeIdsOf(as, taskId) == {a[2] : a \in {x \in as : x[1] = taskId}}

FindTaskMutant(ts, taskId, houseId) == {t \in ts : t.id = taskId}
\* prisma.task.findFirst({ where: { id: taskId, houseId } })
FindTask(ts, taskId, houseId) ==
  {t \in ts : t.id = taskId /\ t.houseId = houseId}

\* prisma.houseMember.findMany({ where: { id: { in: assigneeIds }, houseId } })
ValidAssigneesMutant(ms, assigneeIds, houseId) ==
  {m \in ms : m.id \in Range(assigneeIds)}
ValidAssignees(ms, assigneeIds, houseId) ==
  {m \in ms : m.id \in Range(assigneeIds) /\ m.houseId = houseId}

AssigneesRejectedMutant(ms, assigneeIds, houseId) == FALSE
AssigneesRejectedDistinct(ms, assigneeIds, houseId) ==
  /\ Len(assigneeIds) > 0
  /\ Cardinality(ValidAssignees(ms, assigneeIds, houseId))
       # Cardinality(Range(assigneeIds))
\* "Verify all assignees are members of the house"
AssigneesRejected(ms, assigneeIds, houseId) ==
  /\ Len(assigneeIds) > 0
  /\ Cardinality(ValidAssignees(ms, assigneeIds, houseId)) # Len(assigneeIds)

CategoryRejectedMutant(cs, categoryId, houseId) ==
  /\ categoryId # Undefined
  /\ categoryId # Null
  /\ ~\E c \in cs : c.id = categoryId
\* "Verify category belongs to house if provided"
CategoryRejected(cs, categoryId, houseId) ==
  /\ categoryId # Undefined
  /\ categoryId # Null
  /\ ~\E c \in cs : c.id = categoryId /\ c.houseId = houseId

\* TaskService.canUserModifyTask
canUserModifyTask(task, taskAssignees, currentMemberId) ==
  IF task.createdById = currentMemberId THEN TRUE
  ELSE IF currentMemberId \in taskAssignees THEN TRUE
  ELSE FALSE

canDeleteTaskMutant(task, currentMemberId, ms) ==
  \/ task.createdById = currentMemberId
  \/ \E m \in ms : m.id = currentMemberId
\* deleteTask: canDelete, with currentMember looked up by id
canDeleteTask(task, currentMemberId, ms) ==
  \/ task.createdById = currentMemberId
  \/ \E m \in ms : m.id = currentMemberId /\ m.role = "OWNER"

CompletedAtForMutant(status, now) == now
\* updateTaskStatus: "Set completedAt when marking as completed"
CompletedAtFor(status, now) ==
  IF status = "COMPLETED" THEN now ELSE Null

\* assigneeIdsSchema: .max(10, ...); a ZodError is no AppError, so the
\* errorHandler answers it with 500
SchemaRejectsAssignees(assigneeIds) == Len(assigneeIds) > AssigneeCap

TaskVarsUnchanged ==
  UNCHANGED <<houses, houseNames, members, categories, nextHouseId, nextMemberId, reqs>>

\* ------------------------------------------------------------ middleware
requireHouseMemberMutant(ms, userId, houseId) == {m \in ms : m.userId = userId}
\* requireHouseMember: the membership of req.user.id in house req.params.id,
\* attached as req.houseMember; none is ForbiddenError
requireHouseMember(ms, userId, houseId) ==
  FindMemberByUserHouse(ms, userId, houseId)

\* req.houseMember.id (0 when the request was not admitted)
AttachedId(houseMember) ==
  IF houseMember = {} THEN 0 ELSE (CHOOSE m \in houseMember : TRUE).id

\* roleHierarchy of hasRequiredRole
RoleRank(role) == IF role = "OWNER" THEN 2 ELSE 1

hasRequiredRoleMutant(userRole, requiredRole) ==
  RoleRank(userRole) <= RoleRank(requiredRole)
hasRequiredRole(userRole, requiredRole) ==
  RoleRank(userRole) >= RoleRank(requiredRole)

\* requireOwner = requireHouseRole("OWNER"), run after requireHouseMember
requireOwner(houseMember) ==
  /\ houseMember # {}
  /\ \A m \in houseMember : hasRequiredRole(m.role, "OWNER")

\* what a route knows of its request: req.user.id, req.params.id and
\* req.houseMember
RouteArgs(userId, houseId, houseMember) ==
  [NoArgs EXCEPT !.by = userId, !.house = houseId,
                 !.actor = AttachedId(houseMember)]

\* next(error) with a ForbiddenError: no controller runs
Forbidden(op, args) ==
  /\ Idle
  /\ last' = Call(op, args, "403")
  /\ UNCHANGED <<houses, houseNames, members, categories, tasks, assignees,
                 nextHouseId, nextMemberId, nextTaskId, clock, reqs>>

\* ------------------------------------ house routes (middleware + service)
\* GET /:id
getHouseByIdRoute(userId, houseId) ==
  LET houseMember == requireHouseMember(members, userId, houseId)
      base == RouteArgs(userId, houseId, houseMember)
  IN IF houseMember = {}
     THEN Forbidden("getHouseById", base)
     ELSE getHouseByIdBy(base, houseId)

\* PUT /:id
updateHouseRoute(userId, houseId, data) ==
  LET houseMember == requireHouseMember(members, userId, houseId)
      base == RouteArgs(userId, houseId, houseMember)
  IN IF houseMember = {} \/ ~requireOwner(houseMember)
     THEN Forbidden("updateHouse", [base EXCEPT !.name = data.name])
     ELSE updateHouseBy(base, houseId, data)

\* DELETE /:id
deleteHouseRoute(userId, houseId) ==
  LET houseMember == requireHouseMember(members, userId, houseId)
      base == RouteArgs(userId, houseId, houseMember)
  IN IF houseMember = {} \/ ~requireOwner(houseMember)
     THEN Forbidden("deleteHouse", base)
     ELSE deleteHouseBy(base, houseId)

\* GET /:id/members
getHouseMembersRoute(userId, houseId) ==
  LET houseMember == requireHouseMember(members, userId, houseId)
      base == RouteArgs(userId, houseId, houseMember)
  IN IF houseMember = {}
     THEN Forbidden("getHouseMembers", base)
     ELSE getHouseMembersBy(base, houseId)

\* DELETE /:id/members/:userId
removeMemberRoute(userId, houseId, targetUserId) ==
  LET houseMember == requireHouseMember(members, userId, houseId)
      base == RouteArgs(userId, houseId, houseMember)
  IN IF houseMember = {} \/ ~requireOwner(houseMember)
     THEN Forbidden("removeMember", [base EXCEPT !.user = targetUserId])
     ELSE removeMemberBy(base, houseId, targetUserId)

\* PUT /:id/members/:userId/role
updateMemberRoleRoute(userId, houseId, targetUserId, newRole) ==
  LET houseMember == requireHouseMember(members, userId, houseId)
      base == RouteArgs(userId, houseId, houseMember)
  IN IF houseMember = {} \/ ~requireOwner(houseMember)
     THEN Forbidden("updateMemberRole",
                    [base EXCEPT !.user = targetUserId, !.role = newRole])
     ELSE updateMemberRoleBy(base, houseId, targetUserId, newRole)

\* ------------------------------------- task routes (middleware + service)
\* POST /:id/tasks: requireHouseMember, TaskController.createTask,
\* TaskService.createTask
createTask(userId, houseId, data) ==
  /\ Idle
  /\ nextTaskId <= MaxTasks
  /\ LET houseMember == requireHouseMember(members, userId, houseId)
         args == [NoArgs EXCEPT !.user = userId, !.by = userId, !.house = houseId,
                                !.actor = AttachedId(houseMember),
                                !.ids = data.assigneeIds, !.cat = data.categoryId,
                                !.task = nextTaskId]
     IN IF houseMember = {}
        THEN /\ last' = Call("createTask", args, "403")
             /\ UNCHANGED <<tasks, assignees, nextTaskId>>
        ELSE IF SchemaRejectsAssignees(data.assigneeIds)
        THEN /\ last' = Call("createTask", args, "500")
             /\ UNCHANGED <<tasks, assignees, nextTaskId>>
        ELSE IF AssigneesRejected(members, data.assigneeIds, houseId)
        THEN /\ last' = Call("createTask", args, "422")
             /\ UNCHANGED <<tasks, assignees, nextTaskId>>
        ELSE IF CategoryRejected(categories, data.categoryId, houseId)
        THEN /\ last' = Call("createTask", args, "422")
             /\ UNCHANGED <<tasks, assignees, nextTaskId>>
        ELSE LET createdById == (CHOOSE m \in houseMember : TRUE).id
                 task == TaskRow(nextTaskId, data.title, OrNull(data.description),
                                 "PENDING", data.priority, OrNull(data.dueDate),
                                 Null, houseId, OrNull(data.categoryId),
                                 createdById)
             IN /\ tasks' = tasks \cup {task}
                /\ assignees' = assignees \cup
                     {<<task.id, data.assigneeIds[i]>> : i \in 1..Len(data.assigneeIds)}
                /\ nextTaskId' = nextTaskId + 1
                /\ last' = Call("createTask", args, "ok")
  /\ UNCHANGED clock
  /\ TaskVarsUnchanged

\* the fields updateTask writes: only those the request provides
UpdatedTask(task, data) ==
  [task EXCEPT
     !.title = IF data.title # Undefined THEN data.title ELSE @,
     !.description = IF data.description # Undefined THEN data.description ELSE @,
     !.priority = IF data.priority # "" THEN data.priority ELSE @,
     !.dueDate = IF data.dueDate # Undefined THEN data.dueDate ELSE @,
     !.categoryId = IF data.categoryId # Undefined THEN data.categoryId ELSE @]

\* updateTaskSchema: description, dueDate and categoryId are optional strings
\* (not nullable), and a dueDate must be later than new Date()
SchemaRejectsUpdate(data, now) ==
  \/ data.title = Null
  \/ data.description = Null
  \/ data.dueDate = Null
  \/ data.categoryId = Null
  \/ (data.dueDate # Undefined /\ ~(data.dueDate > now))

\* PUT /:id/tasks/:taskId; now is what new Date() returns in the schema
updateTaskAt(userId, houseId, taskId, data, now) ==
  /\ Idle
  /\ now >= clock
  /\ clock' = now
  /\ LET houseMember == requireHouseMember(members, userId, houseId)
         found == FindTask(tasks, taskId, houseId)
         args == [NoArgs EXCEPT !.user = userId, !.by = userId, !.house = houseId,
                                !.actor = AttachedId(houseMember),
                                !.task = taskId, !.cat = data.categoryId,
                                !.data = data, !.now = now]
     IN IF houseMember = {}
        THEN /\ last' = Call("updateTask", args, "403")
             /\ UNCHANGED tasks
        ELSE IF SchemaRejectsUpdate(data, now)
        THEN \* the ZodError is no AppError
             /\ last' = Call("updateTask", args, "500")
             /\ UNCHANGED tasks
        ELSE IF found = {}
        THEN /\ last' = Call("updateTask", args, "404")
             /\ UNCHANGED tasks
        ELSE LET task == CHOOSE t \in found : TRUE
                 currentMemberId == (CHOOSE m \in houseMember : TRUE).id
             IN IF ~canUserModifyTask(task, AssigneeIdsOf(assignees, taskId),
                                      currentMemberId)
                THEN /\ last' = Call("updateTask", args, "403")
                     /\ UNCHANGED tasks
                ELSE IF CategoryRejected(categories, data.categoryId, houseId)
                THEN /\ last' = Call("updateTask", args, "422")
                     /\ UNCHANGED tasks
                ELSE /\ tasks' = (tasks \ {task}) \cup {UpdatedTask(task, data)}
                     /\ last' = Call("updateTask", args, "ok")
  /\ UNCHANGED <<assignees, nextTaskId>>
  /\ TaskVarsUnchanged

\* PUT /:id/tasks/:taskId at the time of the last call
updateTask(userId, houseId, taskId, data) ==
  updateTaskAt(userId, houseId, taskId, data, clock)

WithStatusMutant(task, status, now) ==
  IF task.status = status THEN task
  ELSE [task EXCEPT !.status = status, !.completedAt = CompletedAtFor(status, now)]
\* updateData of updateTaskStatus, written whatever the status of the task is
WithStatus(task, status, now) ==
  [task EXCEPT !.status = status, !.completedAt = CompletedAtFor(status, now)]

\* PUT /:id/tasks/:taskId/status; now is what new Date() returns
updateTaskStatus(userId, houseId, taskId, status, now) ==
  /\ Idle
  /\ now >= clock
  /\ clock' = now
  /\ LET houseMember == requireHouseMember(members, userId, houseId)
         found == FindTask(tasks, taskId, houseId)
         args == [NoArgs EXCEPT !.user = userId, !.by = userId, !.house = houseId,
                                !.actor = AttachedId(houseMember),
                                !.task = taskId, !.status = status,
                                !.now = now]
     IN IF houseMember = {}
        THEN /\ last' = Call("updateTaskStatus", args, "403")
             /\ UNCHANGED tasks
        ELSE IF found = {}
        THEN /\ last' = Call("updateTaskStatus", args, "404")
             /\ UNCHANGED tasks
        ELSE LET task == CHOOSE t \in found : TRUE
                 currentMemberId == (CHOOSE m \in houseMember : TRUE).id
             IN IF ~canUserModifyTask(task, AssigneeIdsOf(assignees, taskId),
                                      currentMemberId)
                THEN /\ last' = Call("updateTaskStatus", args, "403")
                     /\ UNCHANGED tasks
                ELSE /\ tasks' = (tasks \ {task}) \cup {WithStatus(task, status, now)}
                     /\ last' = Call("updateTaskStatus", args, "ok")
  /\ UNCHANGED <<assignees, nextTaskId>>
  /\ TaskVarsUnchanged

\* PUT /:id/tasks/:taskId/assignees
updateTaskAssignees(userId, houseId, taskId, assigneeIds) ==
  /\ Idle
  /\ LET houseMember == requireHouseMember(members, userId, houseId)
         found == FindTask(tasks, taskId, houseId)
         args == [NoArgs EXCEPT !.user = userId, !.by = userId, !.house = houseId,
                                !.actor = AttachedId(houseMember),
                                !.task = taskId, !.ids = assigneeIds]
     IN IF houseMember = {}
        THEN /\ last' = Call("updateTaskAssignees", args, "403")
             /\ UNCHANGED assignees
        ELSE IF SchemaRejectsAssignees(assigneeIds)
        THEN /\ last' = Call("updateTaskAssignees", args, "500")
             /\ UNCHANGED assignees
        ELSE IF found = {}
        THEN /\ last' = Call("updateTaskAssignees", args, "404")
             /\ UNCHANGED assignees
        ELSE LET task == CHOOSE t \in found : TRUE
                 currentMemberId == (CHOOSE m \in houseMember : TRUE).id
             IN IF ~canUserModifyTask(task, AssigneeIdsOf(assignees, taskId),
                                      currentMemberId)
                THEN /\ last' = Call("updateTaskAssignees", args, "403")
                     /\ UNCHANGED assignees
                ELSE IF AssigneesRejected(members, assigneeIds, houseId)
                THEN /\ last' = Call("updateTaskAssignees", args, "422")
                     /\ UNCHANGED assignees
                ELSE \* deleteMany({ where: { taskId } }) then createMany
                     /\ assignees' = AssigneesWithoutTasks(assignees, {taskId}) \cup
                          {<<taskId, assigneeIds[i]>> : i \in 1..Len(assigneeIds)}
                     /\ last' = Call("updateTaskAssignees", args, "ok")
  /\ UNCHANGED <<tasks, nextTaskId, clock>>
  /\ TaskVarsUnchanged

\* DELETE /:id/tasks/:taskId
deleteTask(userId, houseId, taskId) ==
  /\ Idle
  /\ LET houseMember == requireHouseMember(members, userId, houseId)
         found == FindTask(tasks, taskId, houseId)
         args == [NoArgs EXCEPT !.user = userId, !.by = userId, !.house = houseId,
                                !.actor = AttachedId(houseMember),
                                !.task = taskId]
     IN IF houseMember = {}
        THEN /\ last' = Call("deleteTask", args, "403")
             /\ UNCHANGED <<tasks, assignees>>
        ELSE IF found = {}
        THEN /\ last' = Call("deleteTask", args, "404")
             /\ UNCHANGED <<tasks, assignees>>
        ELSE LET task == CHOOSE t \in found : TRUE
                 currentMemberId == (CHOOSE m \in houseMember : TRUE).id
             IN IF ~canDeleteTask(task, currentMemberId, members)
                THEN /\ last' = Call("deleteTask", args, "403")
                     /\ UNCHANGED <<tasks, assignees>>
                ELSE /\ tasks' = tasks \ {task}
                     /\ assignees' = AssigneesWithoutTasks(assignees, {taskId})
                     /\ last' = Call("deleteTask", args, "ok")
  /\ UNCHANGED <<nextTaskId, clock>>
  /\ TaskVarsUnchanged

\* GET /:id/tasks/:taskId: TaskService.getTaskById
getTaskById(userId, houseId, taskId) ==
  /\ Idle
  /\ LET houseMember == requireHouseMember(members, userId, houseId)
         found == FindTask(tasks, taskId, houseId)
         args == [NoArgs EXCEPT !.user = userId, !.by = userId, !.house = houseId,
                                !.actor = AttachedId(houseMember),
                                !.task = taskId]
     IN IF houseMember = {}
        THEN last' = Call("getTaskById", args, "403")
        ELSE IF found = {}
        THEN last' = Call("getTaskById", args, "404")
        ELSE last' = CallReturning("getTaskById", args, "ok", <<taskId>>)
  /\ UNCHANGED <<tasks, assignees, nextTaskId, clock>>
  /\ TaskVarsUnchanged

\* the where clause of getHouseTasks; a filter that is absent (or false, or
\* empty) constrains nothing; dueDate < now is never true of a null dueDate
\* where.status: the spread of the overdue filter comes after the spread of
\* the status filter and writes the same key
WhereStatus(filters) == IF filters.overdue THEN "PENDING" ELSE filters.status

MatchesFilters(task, as, houseId, currentMemberId, filters, now) ==
  /\ task.houseId = houseId
  /\ WhereStatus(filters) # "" => task.status = WhereStatus(filters)
  /\ filters.priority # "" => task.priority = filters.priority
  /\ filters.categoryId # Undefined => task.categoryId = filters.categoryId
  /\ filters.createdByMe => task.createdById = currentMemberId
  /\ filters.overdue => (task.dueDate # Null /\ task.dueDate < now)
  /\ filters.assignedToMe => currentMemberId \in AssigneeIdsOf(as, task.id)

\* enum TaskPriority in declaration order
PriorityRank(priority) ==
  IF priority = "LOW" THEN 1 ELSE IF priority = "MEDIUM" THEN 2 ELSE 3

\* orderBy priority desc, dueDate asc (nulls last), createdAt desc; ids are
\* handed out in creation order
OrderedBefore(a, b) ==
  \/ PriorityRank(a.priority) > PriorityRank(b.priority)
  \/ /\ a.priority = b.priority
     /\ a.dueDate # Null
     /\ (b.dueDate = Null \/ a.dueDate < b.dueDate)
  \/ /\ a.priority = b.priority
     /\ a.dueDate = b.dueDate
     /\ a.id > b.id

RECURSIVE OrderedTasks(_)
OrderedTasks(S) ==
  IF S = {} THEN <<>>
  ELSE LET first == CHOOSE t \in S : \A u \in S \ {t} : OrderedBefore(t, u)
       IN <<first.id>> \o OrderedTasks(S \ {first})

Reversed(seq) == [i \in 1..Len(seq) |-> seq[Len(seq) + 1 - i]]

\* findMany's skip and take on the ordered rows: a negative take takes from
\* the end of the list
TakeAfterSkip(seq, skip, take) ==
  LET rows == IF take < 0 THEN Reversed(seq) ELSE seq
      count == IF take < 0 THEN -take ELSE take
      end == IF skip + count < Len(rows) THEN skip + count ELSE Len(rows)
      taken == SubSeq(rows, skip + 1, end)
  IN IF take < 0 THEN Reversed(taken) ELSE taken

\* const skip = (page - 1) * limit
SkipOf(page, limit) == (page - 1) * limit

\* Math.ceil(total / limit), total >= 0 and limit # 0
PagesOfMutant(total, limit) ==
  IF limit > 0 THEN total \div limit ELSE -(total \div (-limit))
PagesOf(total, limit) ==
  IF limit > 0 THEN (total + limit - 1) \div limit ELSE -(total \div (-limit))

\* parseInt: an optional sign, then the decimal digits up to the first other
\* character; NaN when there is no digit
DigitOf(c) ==
  CASE c = "0" -> 0 [] c = "1" -> 1 [] c = "2" -> 2 [] c = "3" -> 3
    [] c = "4" -> 4 [] c = "5" -> 5 [] c = "6" -> 6 [] c = "7" -> 7
    [] c = "8" -> 8 [] c = "9" -> 9 [] OTHER -> -1

RECURSIVE ParseDigits(_, _, _)
ParseDigits(text, i, acc) ==
  IF i > Len(text) \/ DigitOf(text[i]) < 0 THEN acc
  ELSE ParseDigits(text, i + 1, acc * 10 + DigitOf(text[i]))

parseInt(text) ==
  LET negative == Len(text) > 0 /\ text[1] = "-"
      signed == Len(text) > 0 /\ text[1] \in {"-", "+"}
      start == IF signed THEN 2 ELSE 1
      isNaN == start > Len(text) \/ DigitOf(text[start]) < 0
      digits == ParseDigits(text, start, 0)
  IN [isNaN |-> isNaN,
      value |-> IF isNaN THEN 0 ELSE IF negative THEN -digits ELSE digits]

\* parsed || fallback: NaN and 0 are falsy
OrElse(parsed, fallback) ==
  IF parsed.isNaN \/ parsed.value = 0 THEN fallback ELSE parsed.value

\* taskFilterSchema page: parseInt(val) || 1, and the default page = 1 of
\* getHouseTasks for an absent page
PageFromQuery(param) ==
  IF param.given THEN OrElse(parseInt(param.text), 1) ELSE 1

\* taskFilterSchema limit: Math.min(parseInt(val) || 20, 100), and the default
\* limit = 20 of getHouseTasks for an absent limit
LimitFromQuery(param) ==
  IF param.given
  THEN LET parsed == OrElse(parseInt(param.text), 20)
       IN IF parsed < 100 THEN parsed ELSE 100
  ELSE 20

\* taskFilterSchema.parse(req.query) followed by the destructuring defaults
taskFilterSchema(query) ==
  [status |-> query.status, priority |-> query.priority,
   assignedToMe |-> (query.assignedToMe = "true"),
   createdByMe |-> (query.createdByMe = "true"),
   categoryId |-> query.categoryId,
   overdue |-> (query.overdue = "true"),
   page |-> PageFromQuery(query.page), limit |-> LimitFromQuery(query.limit)]

\* TaskService.getHouseTasks; base: what the controller recorded of the request
getHouseTasksBy(base, userId, houseId, filters, now) ==
  /\ Idle
  /\ now >= clock
  /\ clock' = now
  /\ LET houseMember == requireHouseMember(members, userId, houseId)
         currentMember == FindMemberByUserHouse(members, userId, houseId)
         args == [base EXCEPT !.user = userId, !.by = userId, !.house = houseId,
                              !.actor = AttachedId(houseMember),
                              !.status = filters.status,
                              !.cat = filters.categoryId,
                              !.mine = filters.assignedToMe,
                              !.filters = filters, !.now = now]
     IN IF houseMember = {} \/ currentMember = {}
        THEN last' = Call("getHouseTasks", args, "403")
        ELSE IF SkipOf(filters.page, filters.limit) < 0
        THEN \* findMany rejects a negative skip; the error is no AppError
             last' = Call("getHouseTasks", args, "500")
        ELSE LET currentMemberId == (CHOOSE m \in currentMember : TRUE).id
                 matching == {t \in tasks :
                                MatchesFilters(t, assignees, houseId,
                                               currentMemberId, filters, now)}
                 total == Cardinality(matching)
             IN last' = CallListing("getHouseTasks", args, "ok",
                          TakeAfterSkip(OrderedTasks(matching),
                            SkipOf(filters.page, filters.limit), filters.limit),
                          [page |-> filters.page, limit |-> filters.limit,
                           total |-> total,
                           pages |-> PagesOf(total, filters.limit)])
  /\ UNCHANGED <<tasks, assignees, nextTaskId>>
  /\ TaskVarsUnchanged

\* GET /:id/tasks with filters already parsed
getHouseTasks(userId, houseId, filters, now) ==
  getHouseTasksBy(NoArgs, userId, houseId, filters, now)

\* GET /:id/tasks: TaskController.getHouseTasks
getHouseTasksQuery(userId, houseId, query, now) ==
  getHouseTasksBy([NoArgs EXCEPT !.query = query], userId, houseId,
                  taskFilterSchema(query), now)

\* ---------------------------------- HouseService, one store call per step
\* removeMember and updateMemberRole as the event loop runs them: every
\* awaited prisma call is one step, and steps of different requests interleave.
NoMember == HouseMemberRow(0, 0, 0, 0, "")

NoReq == [pc |-> "idle", op |-> "", house |-> 0, user |-> 0, role |-> "",
          target |-> NoMember, result |-> "", task |-> 0, ids |-> <<>>,
          name |-> 0, actor |-> 0, status |-> "", now |-> 0,
          deleted |-> {}, inserted |-> {}]

ReqVarsUnchanged ==
  UNCHANGED <<houses, houseNames, categories, tasks, nextHouseId, nextMemberId,
              nextTaskId, clock, last>>

\* the request arrives: removeMember(houseId, targetUserId) or
\* updateMemberRole(houseId, targetUserId, newRole)
ReqStart(r, op, houseId, targetUserId, newRole) ==
  /\ reqs[r].pc = "idle"
  /\ reqs' = [reqs EXCEPT ![r] = [NoReq EXCEPT !.pc = "find", !.op = op,
                                   !.house = houseId, !.user = targetUserId,
                                   !.role = newRole]]
  /\ UNCHANGED <<members, assignees>>
  /\ ReqVarsUnchanged

\* await prisma.houseMember.findUnique(...) and the tests on targetMember
ReqFind(r) ==
  /\ reqs[r].pc = "find"
  /\ LET q == reqs[r]
         found == FindMemberByUserHouse(members, q.user, q.house)
     IN IF found = {}
        THEN reqs' = [reqs EXCEPT ![r].pc = "done", ![r].result = "404"]
        ELSE LET targetMember == CHOOSE m \in found : TRUE
                 counts == IF q.op = "removeMember"
                           THEN targetMember.role = "OWNER"
                           ELSE targetMember.role = "OWNER" /\ q.role # "OWNER"
             IN reqs' = [reqs EXCEPT ![r].target = targetMember,
                                     ![r].pc = IF counts THEN "count" ELSE "write"]
  /\ UNCHANGED <<members, assignees>>
  /\ ReqVarsUnchanged

\* await prisma.houseMember.count(...) and the test on ownerCount
ReqCount(r) ==
  /\ reqs[r].pc = "count"
  /\ LET q == reqs[r]
         ownerCount == OwnerCount(members, q.house)
         hits == IF q.op = "removeMember"
                 THEN RemoveHitsLastOwner(q.target, ownerCount)
                 ELSE DemoteHitsLastOwner(q.target, q.role, ownerCount)
     IN IF hits
        THEN reqs' = [reqs EXCEPT ![r].pc = "done", ![r].result = "422"]
        ELSE reqs' = [reqs EXCEPT ![r].pc = "write"]
  /\ UNCHANGED <<members, assignees>>
  /\ ReqVarsUnchanged

\* await prisma.houseMember.delete(...) or prisma.houseMember.update(...),
\* both addressed by userId_houseId; a missing row is Prisma's P2025
ReqWrite(r) ==
  /\ reqs[r].pc = "write"
  /\ LET q == reqs[r]
         found == FindMemberByUserHouse(members, q.user, q.house)
     IN IF found = {}
        THEN /\ reqs' = [reqs EXCEPT ![r].pc = "done", ![r].result = "500"]
             /\ UNCHANGED <<members, assignees>>
        ELSE LET row == CHOOSE m \in found : TRUE
             IN IF q.op = "removeMember"
                THEN IF MemberDeleteRejected(tasks, row.id)
                     THEN /\ reqs' = [reqs EXCEPT ![r].pc = "done",
                                                  ![r].result = "500"]
                          /\ UNCHANGED <<members, assignees>>
                     ELSE /\ members' = members \ {row}
                          /\ assignees' = AssigneesWithoutMember(assignees, row.id)
                          /\ reqs' = [reqs EXCEPT ![r].pc = "done",
                                                  ![r].result = "ok"]
                ELSE /\ members' = WithRole(members, row, q.role)
                     /\ UNCHANGED assignees
                     /\ reqs' = [reqs EXCEPT ![r].pc = "done", ![r].result = "ok"]
  /\ ReqVarsUnchanged

\* -------------------------------------------------------- specification
Init ==
  /\ houses = {}
  /\ houseNames = <<>>
  /\ members = {}
  /\ categories = {}
  /\ tasks = {}
  /\ assignees = {}
  /\ nextHouseId = 1
  /\ nextMemberId = 1
  /\ nextTaskId = 1
  /\ clock = 1
  /\ reqs = [r \in ReqIds |-> NoReq]
  /\ last = NoCall

\* HouseService calls, each run to completion
Next ==
  \/ \E u \in Users, n \in DisplayNames : createHouse(u, n)
  \/ \E h \in HouseIds, u \in Users : removeMember(h, u)
  \/ \E h \in HouseIds, u \in Users, r \in Roles : updateMemberRole(h, u, r)
  \/ \E h \in HouseIds : deleteHouse(h)
  \/ \E h \in HouseIds, u \in Users, n \in DisplayNames, r \in Roles :
       seedHouseMember(h, u, n, r)
  \/ Respond

Spec == Init /\ [][Next]_vars

\* houses are set up, then removeMember / updateMemberRole requests run
\* concurrently, one store call at a time
RaceNext ==
  \/ \E u \in Users, n \in DisplayNames : createHouse(u, n)
  \/ \E h \in HouseIds, u \in Users, n \in DisplayNames, r \in Roles :
       seedHouseMember(h, u, n, r)
  \/ Respond
  \/ \E r \in ReqIds, h \in HouseIds, u \in Users :
       ReqStart(r, "removeMember", h, u, "")
  \/ \E r \in ReqIds, h \in HouseIds, u \in Users, newRole \in Roles :
       ReqStart(r, "updateMemberRole", h, u, newRole)
  \/ \E r \in ReqIds : ReqFind(r)
  \/ \E r \in ReqIds : ReqCount(r)
  \/ \E r \in ReqIds : ReqWrite(r)

SpecRace == Init /\ [][RaceNext]_vars

\* The store the seeders leave: house 1 with an owner and two members,
\* house 2 with one owner, one category in each house.
SeedUsers == {1, 2, 3}
SeedHouses == {1, 2}
SeedMembers ==
  { HouseMemberRow(1, 1, 1, 1, "OWNER"), HouseMemberRow(2, 2, 1, 2, "MEMBER"),
    HouseMemberRow(3, 3, 1, 3, "MEMBER"), HouseMemberRow(4, 3, 2, 1, "OWNER") }
SeedCategories == {CategoryRow(1, 1), CategoryRow(2, 2)}

TaskInit ==
  /\ houses = SeedHouses
  /\ houseNames = [h \in SeedHouses |-> NewHouseName]
  /\ members = SeedMembers
  /\ categories = SeedCategories
  /\ tasks = {}
  /\ assignees = {}
  /\ nextHouseId = 3
  /\ nextMemberId = 5
  /\ nextTaskId = 1
  /\ clock = 1
  /\ reqs = [r \in ReqIds |-> NoReq]
  /\ last = NoCall

\* request bodies of the task routes
\* assigneeIds: lists of house member ids (two of house 1, one of house 2),
\* repetitions included; the order of a list has no effect on the service,
\* so the lists are taken in ascending order; and one list longer than the
\* schema accepts
SeqsUpTo(S, n) == UNION {[1..k -> S] : k \in 0..n}
Ascending(seq) == \A i \in 1..(Len(seq) - 1) : seq[i] <= seq[i + 1]
OversizedAssigneeIds == [i \in 1..(AssigneeCap + 1) |-> 2 + (i % 3)]
AssigneeIdInputs ==
  {seq \in SeqsUpTo({2, 3, 4}, MaxAssignees) : Ascending(seq)}
    \cup {OversizedAssigneeIds}
CategoryInputs == {Undefined, 2}
Times == 1..MaxClock

CreateTaskInput(categoryId, assigneeIds) ==
  [title |-> 1, description |-> Undefined, priority |-> "MEDIUM",
   dueDate |-> Undefined, categoryId |-> categoryId, assigneeIds |-> assigneeIds]

\* query of GET /:id/tasks after taskFilterSchema: assignedToMe given or not
TaskFilterInput(assignedToMe) ==
  [status |-> "", priority |-> "", assignedToMe |-> assignedToMe,
   createdByMe |-> FALSE, categoryId |-> Undefined, overdue |-> FALSE,
   page |-> 1, limit |-> 20]

UpdateTaskInput(categoryId) ==
  [title |-> Undefined, description |-> Undefined, priority |-> "",
   dueDate |-> Undefined, categoryId |-> categoryId]

TaskNext ==
  \/ \E u \in SeedUsers, h \in SeedHouses, c \in CategoryInputs,
        ids \in AssigneeIdInputs : createTask(u, h, CreateTaskInput(c, ids))
  \/ \E u \in SeedUsers, h \in SeedHouses, t \in TaskIds, c \in CategoryInputs :
       updateTask(u, h, t, UpdateTaskInput(c))
  \/ \E u \in SeedUsers, h \in SeedHouses, t \in TaskIds, st \in TaskStatuses,
        now \in Times : updateTaskStatus(u, h, t, st, now)
  \/ \E u \in SeedUsers, h \in SeedHouses, t \in TaskIds,
        ids \in AssigneeIdInputs : updateTaskAssignees(u, h, t, ids)
  \/ \E u \in SeedUsers, h \in SeedHouses, t \in TaskIds : deleteTask(u, h, t)
  \/ \E u \in SeedUsers, h \in SeedHouses, t \in TaskIds : getTaskById(u, h, t)
  \/ \E u \in SeedUsers, h \in SeedHouses, mine \in BOOLEAN, now \in Times :
       getHouseTasks(u, h, TaskFilterInput(mine), now)
  \/ Respond

SpecTask == TaskInit /\ [][TaskNext]_vars

\* ------------------- updateTaskAssignees, one store call per step
\* The requests run on connections of the pool; a request inside
\* prisma.$transaction holds its writes (reqs[r].deleted, reqs[r].inserted)
\* until COMMIT, and the rows it deleted or references stay locked.
InTx(q) == q.op = "updateTaskAssignees" /\ q.pc \in {"insert", "commit"}

\* rows another transaction has deleted and not yet committed
LockedRows(r) == UNION {reqs[o].deleted : o \in {x \in TxIds \ {r} : InTx(reqs[x])}}

\* rows another transaction has inserted and not yet committed
PendingRows(r) == UNION {reqs[o].inserted : o \in {x \in TxIds \ {r} : InTx(reqs[x])}}

CommittedAfterDeleteMutant(as, rows) == as \ rows
\* tx.taskAssignee.deleteMany inside prisma.$transaction: nothing is visible
\* outside the transaction before COMMIT
CommittedAfterDelete(as, rows) == as

TxVarsUnchanged ==
  UNCHANGED <<houses, houseNames, members, categories, tasks, nextHouseId, nextMemberId,
              nextTaskId, clock, last>>

\* the request arrives: requireHouseMember, the body schema, getTaskById and
\* canUserModifyTask
TxStart(r, userId, houseId, taskId, assigneeIds) ==
  /\ reqs[r].pc = "idle"
  /\ LET houseMember == requireHouseMember(members, userId, houseId)
         found == FindTask(tasks, taskId, houseId)
         q == [NoReq EXCEPT !.op = "updateTaskAssignees", !.house = houseId,
                            !.user = userId, !.task = taskId,
                            !.ids = assigneeIds]
         answer(code) == [q EXCEPT !.pc = "done", !.result = code]
     IN IF houseMember = {}
        THEN reqs' = [reqs EXCEPT ![r] = answer("403")]
        ELSE IF SchemaRejectsAssignees(assigneeIds)
        THEN reqs' = [reqs EXCEPT ![r] = answer("500")]
        ELSE IF found = {}
        THEN reqs' = [reqs EXCEPT ![r] = answer("404")]
        ELSE IF ~canUserModifyTask(CHOOSE t \in found : TRUE,
                                   AssigneeIdsOf(assignees, taskId),
                                   AttachedId(houseMember))
        THEN reqs' = [reqs EXCEPT ![r] = answer("403")]
        ELSE reqs' = [reqs EXCEPT ![r] = [q EXCEPT !.pc = "validate"]]
  /\ UNCHANGED assignees
  /\ TxVarsUnchanged

\* await prisma.houseMember.findMany(...): "Verify all assignees are members"
TxValidate(r) ==
  /\ reqs[r].pc = "validate"
  /\ reqs[r].op = "updateTaskAssignees"
  /\ LET q == reqs[r]
     IN IF AssigneesRejected(members, q.ids, q.house)
        THEN reqs' = [reqs EXCEPT ![r].pc = "done", ![r].result = "422"]
        ELSE reqs' = [reqs EXCEPT ![r].pc = "delete"]
  /\ UNCHANGED assignees
  /\ TxVarsUnchanged

\* BEGIN; await tx.taskAssignee.deleteMany({ where: { taskId } }); waits for
\* the rows another transaction holds
TxDelete(r) ==
  /\ reqs[r].pc = "delete"
  /\ LET q == reqs[r]
         rows == {a \in assignees : a[1] = q.task}
     IN /\ rows \cap LockedRows(r) = {}
        /\ reqs' = [reqs EXCEPT ![r].pc = "insert", ![r].deleted = rows]
        /\ assignees' = CommittedAfterDelete(assignees, rows)
  /\ TxVarsUnchanged

\* await tx.taskAssignee.createMany(...): the foreign keys to tasks and
\* house_members and the unique index are checked against the committed
\* rows; a violation throws and the transaction is rolled back
TxInsert(r) ==
  /\ reqs[r].pc = "insert"
  /\ LET q == reqs[r]
         rows == {<<q.task, q.ids[i]>> : i \in 1..Len(q.ids)}
         fkFails == \/ \E a \in rows : ~\E m \in members : m.id = a[2]
                    \/ rows # {} /\ ~\E t \in tasks : t.id = q.task
         uniqueFails == \/ Cardinality(rows) # Len(q.ids)
                        \/ rows \cap (assignees \ q.deleted) # {}
     IN /\ rows \cap PendingRows(r) = {}
        /\ IF fkFails \/ uniqueFails
           THEN \* ROLLBACK
                reqs' = [reqs EXCEPT ![r].pc = "done", ![r].result = "500",
                                     ![r].inserted = rows]
           ELSE reqs' = [reqs EXCEPT ![r].pc = "commit", ![r].inserted = rows]
  /\ UNCHANGED assignees
  /\ TxVarsUnchanged

\* await tx.task.findUnique(...); COMMIT
TxCommit(r) ==
  /\ reqs[r].pc = "commit"
  /\ reqs[r].op = "updateTaskAssignees"
  /\ LET q == reqs[r]
     IN /\ assignees' = (assignees \ q.deleted) \cup q.inserted
        /\ reqs' = [reqs EXCEPT ![r].pc = "done", ![r].result = "ok"]
  /\ TxVarsUnchanged

\* res.json(...) / errorHandler for a request of this section
TxRespond(r) ==
  /\ reqs[r].pc = "done"
  /\ reqs' = [reqs EXCEPT ![r] = NoReq]
  /\ UNCHANGED assignees
  /\ TxVarsUnchanged

\* DELETE /:id/members/:userId meanwhile: the delete of the member row and
\* of its task_assignees rows waits while a transaction holds one of them
removeMemberUnlocked(houseId, targetUserId) ==
  /\ \A m \in FindMemberByUserHouse(members, targetUserId, houseId) :
       \A r \in TxIds :
         InTx(reqs[r]) => ~\E a \in reqs[r].deleted \cup reqs[r].inserted :
                             a[2] = m.id
  /\ removeMember(houseId, targetUserId)

\* the store after the seeders, with one task of house 1 created by its
\* owner and assigned to a member
AssignInit ==
  /\ houses = SeedHouses
  /\ houseNames = [h \in SeedHouses |-> NewHouseName]
  /\ members = SeedMembers
  /\ categories = SeedCategories
  /\ tasks = {TaskRow(1, 1, Null, "PENDING", "MEDIUM", Null, Null, 1, Null, 1)}
  /\ assignees = {<<1, 2>>}
  /\ nextHouseId = 3
  /\ nextMemberId = 5
  /\ nextTaskId = 2
  /\ clock = 1
  /\ reqs = [r \in ReqIds |-> NoReq]
  /\ last = NoCall

\* replacement lists of members of house 1
AssignTxInputs == {<<>>, <<2>>, <<3>>, <<2, 3>>}

AssignNext ==
  \/ \E r \in TxIds, u \in SeedUsers, ids \in AssignTxInputs :
       TxStart(r, u, 1, 1, ids)
  \/ \E r \in TxIds : TxValidate(r)
  \/ \E r \in TxIds : TxDelete(r)
  \/ \E r \in TxIds : TxInsert(r)
  \/ \E r \in TxIds : TxCommit(r)
  \/ \E r \in TxIds : TxRespond(r)
  \/ \E u \in SeedUsers : removeMemberUnlocked(1, u)
  \/ \E u \in SeedUsers : getTaskById(u, 1, 1)
  \/ Respond

SpecAssign == AssignInit /\ [][AssignNext]_vars

\* --------------------------------- createHouse, one store call per step
CommittedAfterHouseCreateMutant(hs, houseId) == hs \cup {houseId}
\* tx.house.create inside prisma.$transaction: the house row is not visible
\* outside the transaction before COMMIT
CommittedAfterHouseCreate(hs, houseId) == hs

\* POST /: BEGIN; await tx.house.create(...)
CreateTxHouse(r, userId, displayName) ==
  /\ reqs[r].pc = "idle"
  /\ nextHouseId <= MaxHouses
  /\ reqs' = [reqs EXCEPT ![r] = [NoReq EXCEPT !.pc = "member",
                                   !.op = "createHouse", !.house = nextHouseId,
                                   !.user = userId, !.name = displayName]]
  /\ nextHouseId' = nextHouseId + 1
  /\ houses' = CommittedAfterHouseCreate(houses, nextHouseId)
  /\ UNCHANGED <<houseNames, members, categories, tasks, assignees,
                 nextMemberId, nextTaskId, clock, last>>

\* await tx.houseMember.create(...); the store accepts the row or throws
\* (a unique index, house_members_userId_fkey, a lost connection), and a
\* throw rolls the transaction back
CreateTxMember(r, storeAccepts) ==
  /\ reqs[r].pc = "member"
  /\ nextMemberId <= MaxMembers
  /\ LET q == reqs[r]
         houseMember == HouseMemberRow(nextMemberId, q.user, q.house, q.name,
                                       OwnerMemberRole)
     IN IF storeAccepts /\ MemberInsertAllowed(members, houseMember)
        THEN /\ reqs' = [reqs EXCEPT ![r].pc = "commit",
                                     ![r].target = houseMember]
             /\ nextMemberId' = nextMemberId + 1
        ELSE /\ reqs' = [reqs EXCEPT ![r].pc = "done", ![r].result = "500"]
             /\ UNCHANGED nextMemberId
  /\ UNCHANGED <<houses, houseNames, members, categories, tasks, assignees,
                 nextHouseId, nextTaskId, clock, last>>

\* return { house, houseMember }; COMMIT
CreateTxCommit(r) ==
  /\ reqs[r].pc = "commit"
  /\ reqs[r].op = "createHouse"
  /\ LET q == reqs[r]
     IN /\ houses' = houses \cup {q.house}
        /\ houseNames' = [h \in houses \cup {q.house} |->
                           IF h = q.house THEN NewHouseName ELSE houseNames[h]]
        /\ members' = members \cup {q.target}
        /\ reqs' = [reqs EXCEPT ![r].pc = "done", ![r].result = "ok"]
  /\ UNCHANGED <<categories, tasks, assignees, nextHouseId, nextMemberId,
                 nextTaskId, clock, last>>

CreateNext ==
  \/ \E r \in TxIds, u \in Users, n \in DisplayNames : CreateTxHouse(r, u, n)
  \/ \E r \in TxIds, storeAccepts \in BOOLEAN : CreateTxMember(r, storeAccepts)
  \/ \E r \in TxIds : CreateTxCommit(r)
  \/ \E r \in TxIds : TxRespond(r)
  \/ \E u \in Users, h \in HouseIds : getHouseByIdRoute(u, h)
  \/ \E u \in Users, h \in HouseIds : getHouseMembersRoute(u, h)
  \/ \E u \in Users : getUserHouses(u)
  \/ Respond

SpecCreate == Init /\ [][CreateNext]_vars

\* ------------------------------------------------------------- claims

\* C1: under sequential (run-to-completion) createHouse, removeMember,
\* updateMemberRole and deleteHouse calls every existing house has at least
\* one membership with role OWNER.
LastOwnerInvariant ==
  \A h \in houses : OwnerCount(members, h) >= 1

\* C1 witness: a removal or a demotion succeeded on a house that exists and
\* that had two owners before the call.
LastOwnerWitness ==
  /\ last.op \in {"removeMember", "updateMemberRole"}
  /\ last.result = "ok"
  /\ last.args.house \in houses
  /\ OwnerCount(last.pre.members, last.args.house) = 2
  /\ OwnerCount(members, last.args.house) = 1

\* C2: the last-owner invariant also holds when removeMember and
\* updateMemberRole requests on the same house interleave store call by
\* store call: every existing house keeps a membership with role OWNER.
LastOwnerUnderRace ==
  \A h \in houses : \E m \in members : m.houseId = h /\ m.role = "OWNER"

\* the target of the last call, as it was in the store before the call
LastTarget ==
  FindMemberByUserHouse(last.pre.members, last.args.user, last.args.house)

LastTargetIsOnlyOwner ==
  /\ OwnerCount(last.pre.members, last.args.house) = 1
  /\ \E M \in LastTarget : M.role = "OWNER"

LastTargetIsOneOfTwoOwners ==
  /\ OwnerCount(last.pre.members, last.args.house) = 2
  /\ \E M \in LastTarget : M.role = "OWNER"

\* C3: right after a successful createHouse(actorUserId, houseData,
\* displayName) the new house has exactly one membership, and it has
\* userId = actorUserId, the given displayName and role OWNER.
CreateHouseSingleOwner ==
  (last.op = "createHouse" /\ last.result = "ok") =>
    /\ last.args.house \in houses
    /\ last.args.house \notin last.pre.houses
    /\ Cardinality(MembersOf(members, last.args.house)) = 1
    /\ \A m \in MembersOf(members, last.args.house) :
         /\ m.userId = last.args.user
         /\ m.displayName = last.args.name
         /\ m.role = "OWNER"

\* C3 witness: a house has just been created and its creator is a member of
\* it.
CreateHouseWitness ==
  /\ last.op = "createHouse"
  /\ last.result = "ok"
  /\ FindMemberByUserHouse(members, last.args.user, last.args.house) # {}

DemoteLastOwnerRejected ==
  (/\ last.op = "updateMemberRole"
   /\ last.args.role = "MEMBER"
   /\ LastTargetIsOnlyOwner) =>
    /\ last.result = "422"
    /\ \E M \in FindMemberByUserHouse(members, last.args.user, last.args.house) :
         M.role = "OWNER"
    /\ Store = last.pre

\* C5 witness: updateMemberRole(.., MEMBER) was called on the only owner of
\* a house that also has another member.
DemoteLastOwnerWitness ==
  /\ last.op = "updateMemberRole"
  /\ last.args.role = "MEMBER"
  /\ LastTargetIsOnlyOwner
  /\ Cardinality(MembersOf(last.pre.members, last.args.house)) >= 2

\* C6: for a house with exactly two OWNER memberships, updateMemberRole
\* demoting either one to MEMBER succeeds; afterwards the house has exactly
\* one OWNER, the target has role MEMBER and every other membership is
\* unchanged.
DemoteOneOfTwoOwners ==
  (/\ last.op = "updateMemberRole"
   /\ last.args.role = "MEMBER"
   /\ LastTargetIsOneOfTwoOwners) =>
    /\ last.result = "ok"
    /\ OwnerCount(members, last.args.house) = 1
    /\ \A M \in LastTarget :
         /\ members \ {[M EXCEPT !.role = "MEMBER"]} = last.pre.members \ {M}
         /\ [M EXCEPT !.role = "MEMBER"] \in members
    /\ houses = last.pre.houses

\* C6 witness: one of two owners has just been demoted.
DemoteOneOfTwoWitness ==
  /\ last.op = "updateMemberRole"
  /\ last.args.role = "MEMBER"
  /\ LastTargetIsOneOfTwoOwners
  /\ last.result = "ok"

\* the actor's membership and the task of the last task call, as they were
\* in the store before the call
LastActor ==
  FindMemberByUserHouse(last.pre.members, last.args.user, last.args.house)

LastTask == FindTask(last.pre.tasks, last.args.task, last.args.house)

ModifyOps == {"updateTask", "updateTaskStatus", "updateTaskAssignees"}

\* C7: for a task with creator X and assignee set S, updateTask,
\* updateTaskStatus and updateTaskAssignees are permitted (not answered with
\* Forbidden) for an actor membership m if and only if m = X, or m is in S,
\* or m's role is OWNER.
ModifyPermittedIffCreatorAssigneeOwner ==
  (last.op \in ModifyOps /\ LastActor # {} /\ LastTask # {}) =>
    \A m \in LastActor, t \in LastTask :
      (last.result # "403") <=>
        \/ m.id = t.createdById
        \/ m.id \in AssigneeIdsOf(last.pre.assignees, t.id)
        \/ m.role = "OWNER"

\* C8: deleteTask on an existing task succeeds if and only if the actor's
\* membership is the task's creator or has role OWNER; any other actor, an
\* assignee included, gets Forbidden and the store is unchanged; a
\* successful call removes the task and its assignments only.
DeleteOnlyCreatorOrOwner ==
  (last.op = "deleteTask" /\ LastActor # {} /\ LastTask # {}) =>
    \A m \in LastActor, t \in LastTask :
      LET allowed == m.id = t.createdById \/ m.role = "OWNER"
      IN /\ (last.result = "ok") <=> allowed
         /\ ~allowed => (last.result = "403" /\ Store = last.pre)
         /\ allowed =>
              /\ tasks = last.pre.tasks \ {t}
              /\ assignees = {a \in last.pre.assignees : a[1] # t.id}

\* C8 witness: a MEMBER who is an assignee of the task but not its creator
\* called deleteTask and got Forbidden.
DeleteByAssigneeWitness ==
  /\ last.op = "deleteTask"
  /\ last.result = "403"
  /\ \E m \in LastActor, t \in LastTask :
       /\ m.role = "MEMBER"
       /\ m.id # t.createdById
       /\ m.id \in AssigneeIdsOf(assignees, t.id)

\* the ids of the memberships of the target house before the last call
LastHouseMemberIds == {m.id : m \in MembersOf(last.pre.members, last.args.house)}

\* C9: TaskService.createTask (reached by a request of a house member whose
\* body the schema accepts) called with assigneeIds that contain at least one
\* id that is not a membership of the target house fails with 422 and
\* creates neither a task row nor an assignment row.
CreateTaskForeignAssigneeRejected ==
  (/\ last.op = "createTask"
   /\ LastActor # {}
   /\ ~SchemaRejectsAssignees(last.args.ids)
   /\ \E i \in 1..Len(last.args.ids) : last.args.ids[i] \notin LastHouseMemberIds) =>
    /\ last.result = "422"
    /\ tasks = last.pre.tasks
    /\ assignees = last.pre.assignees

\* C9 witness: createTask was called with a list that names a member of the
\* house and a membership of another house.
CreateTaskForeignAssigneeWitness ==
  /\ last.op = "createTask"
  /\ LastActor # {}
  /\ ~SchemaRejectsAssignees(last.args.ids)
  /\ \E i \in 1..Len(last.args.ids) : last.args.ids[i] \notin LastHouseMemberIds
  /\ \E i \in 1..Len(last.args.ids) : last.args.ids[i] \in LastHouseMemberIds
  /\ \E m \in last.pre.members : m.id \in Range(last.args.ids) /\ m.houseId # last.args.house

\* C10: every task has completedAt non-null exactly when its status is
\* COMPLETED; a new task is PENDING with completedAt null; a successful
\* updateTaskStatus stores the requested status, with completedAt the time of
\* the call for COMPLETED and null for PENDING; and whatever the task's
\* current status, updateTaskStatus is refused only for a missing task or
\* for lack of permission.
CompletedAtIffCompleted ==
  /\ \A t \in tasks : (t.completedAt # Null) <=> (t.status = "COMPLETED")
  /\ (last.op = "createTask" /\ last.result = "ok") =>
       \E t \in tasks \ last.pre.tasks :
         t.id = last.args.task /\ t.status = "PENDING" /\ t.completedAt = Null
  /\ (last.op = "updateTaskStatus" /\ last.result = "ok") =>
       \E t \in tasks :
         /\ t.id = last.args.task
         /\ t.status = last.args.status
         /\ t.completedAt = (IF last.args.status = "COMPLETED" THEN clock ELSE Null)
  /\ (last.op = "updateTaskStatus" /\ LastActor # {} /\ LastTask # {}) =>
       \A m \in LastActor, t \in LastTask :
         (m.id = t.createdById \/ m.id \in AssigneeIdsOf(last.pre.assignees, t.id))
           => last.result = "ok"

\* C10 witness: a COMPLETED task has just been set back to PENDING.
CompletedThenPendingWitness ==
  /\ last.op = "updateTaskStatus"
  /\ last.result = "ok"
  /\ last.args.status = "PENDING"
  /\ \E t \in LastTask : t.status = "COMPLETED" /\ t.completedAt # Null
  /\ \E t \in tasks : t.id = last.args.task /\ t.completedAt = Null

\* the assignees of the last call's task before the call
LastFormerAssignees == AssigneeIdsOf(last.pre.assignees, last.args.task)

\* C11: after a successful updateTaskAssignees(task, assigneeIds) the task's
\* assignments are exactly the supplied member ids (with an empty list:
\* none), the assignments of other tasks and the tasks are unchanged, and the
\* where clause of listTasks with assignedToMe=true no longer matches the
\* task for a former assignee that was not supplied again; a listTasks with
\* assignedToMe=true returns exactly the tasks of the house that the actor
\* is assigned to now.
ReplaceAssigneesExact ==
  /\ (last.op = "updateTaskAssignees" /\ last.result = "ok") =>
       /\ AssigneeIdsOf(assignees, last.args.task) = Range(last.args.ids)
       /\ (last.args.ids = <<>> =>
             ~\E a \in assignees : a[1] = last.args.task)
       /\ {a \in assignees : a[1] # last.args.task} =
            {a \in last.pre.assignees : a[1] # last.args.task}
       /\ tasks = last.pre.tasks
       /\ \A former \in LastFormerAssignees \ Range(last.args.ids) :
            \A t \in FindTask(tasks, last.args.task, last.args.house) :
              ~MatchesFilters(t, assignees, last.args.house, former,
                              TaskFilterInput(TRUE), clock)
  /\ (last.op = "getHouseTasks" /\ last.result = "ok" /\ last.args.mine) =>
       Range(last.returned) =
         {t.id : t \in {x \in tasks :
                          /\ x.houseId = last.args.house
                          /\ last.args.actor \in AssigneeIdsOf(assignees, x.id)}}

\* C11 witness: a task that had assignees has just been given the empty
\* list.
ReplaceAssigneesWitness ==
  /\ last.op = "updateTaskAssignees"
  /\ last.result = "ok"
  /\ last.args.ids = <<>>
  /\ LastFormerAssignees # {}

\* C12: a failure of the insert inside updateTaskAssignees, after the
\* existing assignments were deleted, rolls the replace back: the step that
\* fails leaves the assignment rows as they were, the deleted rows included;
\* and as long as a replace is between its delete and its commit, the store
\* every other request reads still holds the rows it deleted, so the task is
\* never seen without its old assignments and without the new ones.
ReplaceIsAtomic ==
  [][ \A r \in TxIds :
        /\ (reqs[r].pc = "delete" /\ reqs'[r].pc = "insert") =>
             assignees' = assignees
        /\ (reqs[r].pc = "insert" /\ reqs'[r].pc = "done") =>
             /\ assignees' = assignees
             /\ reqs[r].deleted \subseteq assignees'
        /\ InTx(reqs'[r]) => reqs'[r].deleted \subseteq assignees'
        /\ (reqs[r].pc = "commit" /\ reqs'[r].pc = "done") =>
             assignees' = (assignees \ reqs[r].deleted) \cup reqs[r].inserted
    ]_vars

\* C12 witness: a replace deleted the task's rows, its insert failed, and
\* the rows are in the store.
ReplaceRolledBackWitness ==
  \E r \in TxIds :
    /\ reqs[r].op = "updateTaskAssignees"
    /\ reqs[r].pc = "done"
    /\ reqs[r].result = "500"
    /\ reqs[r].deleted # {}
    /\ reqs[r].deleted \subseteq assignees

\* C13: createHouse is atomic: a createHouse whose owner membership insert
\* failed after the house insert leaves no house row; every house in the
\* store other requests read has an OWNER membership, and so has every
\* house that getHouseById, getHouseMembers or getUserHouses answers with.
CreateHouseAtomic ==
  /\ \A h \in houses : OwnerCount(members, h) >= 1
  /\ \A r \in TxIds :
       (reqs[r].op = "createHouse" /\ reqs[r].pc = "done"
          /\ reqs[r].result = "500") => reqs[r].house \notin houses
  /\ (last.op \in {"getHouseById", "getUserHouses"} /\ last.result = "ok") =>
       \A i \in 1..Len(last.returned) :
         OwnerCount(last.pre.members, last.returned[i]) >= 1
  /\ (last.op = "getHouseMembers" /\ last.result = "ok") =>
       \E m \in last.pre.members :
         m.id \in Range(last.returned) /\ m.role = "OWNER"

\* C13 witness: the membership insert of a createHouse failed after its
\* house insert, and the house is not in the store.
CreateHouseRolledBackWitness ==
  \E r \in TxIds :
    /\ reqs[r].op = "createHouse"
    /\ reqs[r].pc = "done"
    /\ reqs[r].result = "500"
    /\ reqs[r].house # 0
    /\ reqs[r].house \notin houses

\* ------------------------- tasks and memberships of the seeded houses
\* The routes that create or remove task assignments, one call after the
\* other: POST /:id/tasks, PUT /:id/tasks/:taskId/assignees,
\* DELETE /:id/tasks/:taskId and DELETE /:id/members/:userId.
MemberNext ==
  \/ \E u \in SeedUsers, h \in SeedHouses, ids \in AssigneeIdInputs :
       createTask(u, h, CreateTaskInput(Undefined, ids))
  \/ \E u \in SeedUsers, h \in SeedHouses, t \in TaskIds,
        ids \in AssigneeIdInputs : updateTaskAssignees(u, h, t, ids)
  \/ \E u \in SeedUsers, h \in SeedHouses, t \in TaskIds : deleteTask(u, h, t)
  \/ \E u \in SeedUsers, h \in SeedHouses, target \in SeedUsers :
       removeMemberRoute(u, h, target)
  \/ Respond

SpecMember == TaskInit /\ [][MemberNext]_vars

\* the membership row a removeMember call was aimed at, in the store it found
LastRemovedRows ==
  FindMemberByUserHouse(last.pre.members, last.args.user, last.args.house)

\* C14: after a successful removeMember(H, B) no task assignment references
\* B's membership, every task of the store (those B was assigned to
\* included) still exists unchanged, and the assignments of the other
\* members are the ones there were before.
RemoveMemberCascadesAssignments ==
  (last.op = "removeMember" /\ last.result = "ok") =>
    \A b \in LastRemovedRows :
      /\ b \notin members
      /\ \A a \in assignees : a[2] # b.id
      /\ tasks = last.pre.tasks
      /\ {a \in assignees : a[2] # b.id}
           = {a \in last.pre.assignees : a[2] # b.id}

\* a member assigned to a task, next to another assignee, has been removed
RemoveMemberCascadesWitness ==
  /\ last.op = "removeMember" /\ last.result = "ok"
  /\ \E b \in LastRemovedRows :
       /\ \E a \in last.pre.assignees : a[2] = b.id
       /\ \E a \in last.pre.assignees :
            a[2] # b.id /\ \E t \in tasks : t.id = a[1]
       /\ \A a \in assignees : a[2] # b.id

\* C15: removeMember(H, U) of a member U that is not the last owner succeeds
\* also when U's membership is the createdById of tasks: the membership is
\* gone and the tasks stay in the store, createdById still naming it.
RemoveCreatorSucceeds ==
  (last.op = "removeMember" /\ last.result # "403") =>
    \A u \in LastRemovedRows :
      ~RemoveHitsLastOwner(u, OwnerCount(last.pre.members, last.args.house))
        => /\ last.result = "ok"
           /\ u \notin members
           /\ tasks = last.pre.tasks

\* ------------------------------------- the category of a task
\* POST /:id/tasks and PUT /:id/tasks/:taskId with every kind of categoryId:
\* absent, the category of house 1, the category of house 2, an id of no
\* category; assigneeIds empty, of house 1 or of house 2
AnyCategoryInputs == {Undefined, 1, 2, 3}
FewAssigneeIdInputs == {<<>>, <<2>>, <<4>>}

CategoryNext ==
  \/ \E u \in SeedUsers, h \in SeedHouses, c \in AnyCategoryInputs,
        ids \in FewAssigneeIdInputs : createTask(u, h, CreateTaskInput(c, ids))
  \/ \E u \in SeedUsers, h \in SeedHouses, t \in TaskIds,
        c \in AnyCategoryInputs : updateTask(u, h, t, UpdateTaskInput(c))
  \/ Respond

SpecCategory == TaskInit /\ [][CategoryNext]_vars

\* the category a createTask or updateTask call named is none of its house
LastCategoryForeign ==
  /\ last.args.cat # Undefined
  /\ ~\E c \in categories :
        c.id = last.args.cat /\ c.houseId = last.args.house

\* C16: the categoryId of a task, when set, is the id of a category of the
\* task's own house; createTask and updateTask naming a missing category or
\* one of another house never succeed and change nothing, and answer 422
\* once the call has passed the checks that come before the category check.
CategoryOfSameHouse ==
  /\ \A t \in tasks :
       t.categoryId # Null =>
         \E c \in categories : c.id = t.categoryId /\ c.houseId = t.houseId
  /\ (last.op \in {"createTask", "updateTask"} /\ LastCategoryForeign) =>
       /\ last.result # "ok"
       /\ Store = last.pre
       /\ last.result \in {"403", "404", "422", "500"}
  /\ (last.op = "createTask" /\ LastCategoryForeign /\ last.args.actor # 0
        /\ Len(last.args.ids) <= AssigneeCap) => last.result = "422"
  /\ (last.op = "updateTask" /\ LastCategoryForeign
        /\ last.result \notin {"403", "404"}) => last.result = "422"

\* both rejections have happened on a call whose other inputs were valid:
\* here updateTask by the creator with the category of the other house,
\* the task holding a category of its own house
ForeignCategoryWitness ==
  /\ last.op = "updateTask" /\ last.result = "422"
  /\ \E c \in categories : c.id = last.args.cat /\ c.houseId # last.args.house
  /\ \E t \in tasks : t.id = last.args.task /\ t.categoryId # Null

\* C17: whatever createTask, updateTaskAssignees, removeMember and deleteTask
\* have done, every task assignment links an existing task to an existing
\* membership of that task's house, and no (task, membership) pair is
\* assigned twice: a successful createTask or updateTaskAssignees leaves as
\* many assignments of the task as the ids it was given.
AssignmentsReferToOwnHouse ==
  /\ \A a \in assignees :
       \E t \in tasks, m \in members :
         t.id = a[1] /\ m.id = a[2] /\ m.houseId = t.houseId
  /\ (last.op \in {"createTask", "updateTaskAssignees"} /\ last.result = "ok") =>
       /\ Cardinality({a \in assignees : a[1] = last.args.task})
            = Len(last.args.ids)
       /\ AssigneeIdsOf(assignees, last.args.task) = Range(last.args.ids)

\* a task with two assignees has lost one of them to removeMember, while the
\* task and the assignment of the other are still there
AssignmentsAfterRemovalWitness ==
  /\ last.op = "removeMember" /\ last.result = "ok"
  /\ \E t \in tasks :
       /\ Cardinality(AssigneeIdsOf(last.pre.assignees, t.id)) = 2
       /\ Cardinality(AssigneeIdsOf(assignees, t.id)) = 1

\* the routes that address one task by (houseId, taskId)
TaskScopedOps ==
  {"getTaskById", "updateTask", "updateTaskStatus", "updateTaskAssignees",
   "deleteTask"}

\* C18: getTask, updateTask, updateTaskStatus, updateTaskAssignees and
\* deleteTask, called by a member of the house with a (taskId, houseId) where
\* no task of that id is in that house (no such task, or a task of another
\* house), answer NotFound and change nothing, whoever the caller is: the
\* creator of the task, an assignee, an owner or none of these.
TaskOfOtherHouseNotFound ==
  ( /\ last.op \in TaskScopedOps
    /\ last.args.actor # 0
    /\ Len(last.args.ids) <= AssigneeCap
    /\ ~\E t \in last.pre.tasks :
          t.id = last.args.task /\ t.houseId = last.args.house )
  => (last.result = "404" /\ Store = last.pre)

\* the creator of a task of house 2, who is a member of house 1 too, has
\* addressed the task through house 1
TaskOfOtherHouseWitness ==
  /\ last.op \in {"updateTask", "deleteTask"}
  /\ last.result = "404"
  /\ \E t \in tasks, m \in members :
       /\ t.id = last.args.task /\ t.houseId # last.args.house
       /\ m.id = t.createdById /\ m.userId = last.args.by

\* ------------------------------------------- the routes of a house
\* GET, PUT, DELETE /:id and the member routes with their middleware, called
\* by the seeded users on the seeded houses, one call after the other
HouseRouteNext ==
  \/ \E u \in SeedUsers, h \in SeedHouses : getHouseByIdRoute(u, h)
  \/ \E u \in SeedUsers, h \in SeedHouses, n \in {Undefined, 2} :
       updateHouseRoute(u, h, [name |-> n])
  \/ \E u \in SeedUsers, h \in SeedHouses : deleteHouseRoute(u, h)
  \/ \E u \in SeedUsers, h \in SeedHouses : getHouseMembersRoute(u, h)
  \/ \E u \in SeedUsers, h \in SeedHouses, target \in SeedUsers :
       removeMemberRoute(u, h, target)
  \/ \E u \in SeedUsers, h \in SeedHouses, target \in SeedUsers,
        newRole \in Roles : updateMemberRoleRoute(u, h, target, newRole)
  \/ Respond

SpecHouseRoute == TaskInit /\ [][HouseRouteNext]_vars

\* --------------------------------- all house-scoped routes together
\* Every route mounted under /:id with its middleware, called by the seeded
\* users on the seeded houses, one call after the other. Bodies: a house name
\* given or not, the role MEMBER, assigneeIds empty or of one member, no
\* category.
UpdateHouseInput(name) == [name |-> name]
HouseNameInputs == {Undefined, NewHouseName}

RouteNext ==
  \/ \E u \in SeedUsers, h \in SeedHouses : getHouseByIdRoute(u, h)
  \/ \E u \in SeedUsers, h \in SeedHouses, n \in HouseNameInputs :
       updateHouseRoute(u, h, UpdateHouseInput(n))
  \/ \E u \in SeedUsers, h \in SeedHouses : deleteHouseRoute(u, h)
  \/ \E u \in SeedUsers, h \in SeedHouses : getHouseMembersRoute(u, h)
  \/ \E u \in SeedUsers, h \in SeedHouses, target \in SeedUsers :
       removeMemberRoute(u, h, target)
  \/ \E u \in SeedUsers, h \in SeedHouses, target \in SeedUsers :
       updateMemberRoleRoute(u, h, target, "MEMBER")
  \/ \E u \in SeedUsers, h \in SeedHouses :
       createTask(u, h, CreateTaskInput(Undefined, <<>>))
  \/ \E u \in SeedUsers, h \in SeedHouses, t \in TaskIds :
       updateTask(u, h, t, UpdateTaskInput(Undefined))
  \/ \E u \in SeedUsers, h \in SeedHouses, t \in TaskIds, now \in Times :
       updateTaskStatus(u, h, t, "COMPLETED", now)
  \/ \E u \in SeedUsers, h \in SeedHouses, t \in TaskIds,
        ids \in {<<>>, <<2>>} : updateTaskAssignees(u, h, t, ids)
  \/ \E u \in SeedUsers, h \in SeedHouses, t \in TaskIds : deleteTask(u, h, t)
  \/ \E u \in SeedUsers, h \in SeedHouses, t \in TaskIds : getTaskById(u, h, t)
  \/ \E u \in SeedUsers, h \in SeedHouses, now \in Times :
       getHouseTasks(u, h, TaskFilterInput(FALSE), now)
  \/ Respond

SpecRoute == TaskInit /\ [][RouteNext]_vars

\* the membership of the caller in the house of the route, before the call
LastActorRows ==
  {m \in last.pre.members :
     m.userId = last.args.by /\ m.houseId = last.args.house}

OwnerOnlyOps == {"updateHouse", "deleteHouse", "removeMember", "updateMemberRole"}

\* C19: updateHouse, deleteHouse, removeMember and updateMemberRole called by
\* a MEMBER of the house are answered Forbidden and leave houses and
\* memberships (the whole store) as they were; called by an OWNER they pass
\* the gate and are answered by the service; the list of members is given
\* to every member, whatever the role.
OwnerGateOnHouseRoutes ==
  /\ last.op \in OwnerOnlyOps =>
       \A m \in LastActorRows :
         /\ m.role = "MEMBER" => (last.result = "403" /\ Store = last.pre)
         /\ m.role = "OWNER" => last.result \in {"ok", "404", "422", "500"}
  /\ last.op = "getHouseMembers" =>
       \A m \in LastActorRows :
         /\ last.result = "ok"
         /\ Range(last.returned)
              = {x.id : x \in MembersOf(last.pre.members, last.args.house)}

\* a MEMBER next to the owner has tried to make themself OWNER and was
\* refused
OwnerGateWitness ==
  /\ last.op = "updateMemberRole"
  /\ last.result = "403"
  /\ last.args.user = last.args.by
  /\ last.args.role = "OWNER"
  /\ \E m \in LastActorRows : m.role = "MEMBER"
  /\ members = last.pre.members

\* C20: a route of a house or of its tasks, called by a user who has no
\* membership in that house, is answered Forbidden by requireHouseMember:
\* nothing is returned and nothing changes, also when the user is a member
\* of another house; when the call is admitted, the membership attached to
\* the request is the one of exactly this user in exactly this house.
MembershipGateOnHouseRoutes ==
  last.op # "none" =>
    /\ LastActorRows = {} =>
         /\ last.result = "403"
         /\ last.returned = <<>>
         /\ last.args.actor = 0
         /\ Store = last.pre
    /\ LastActorRows # {} =>
         \E m \in last.pre.members :
           /\ m.id = last.args.actor
           /\ m.userId = last.args.by
           /\ m.houseId = last.args.house

\* the owner of house 1, no member of house 2, has asked for an existing
\* task of house 2
MembershipGateWitness ==
  /\ last.op = "getTaskById"
  /\ last.result = "403"
  /\ \E t \in tasks : t.id = last.args.task /\ t.houseId = last.args.house
  /\ \E m \in members : m.userId = last.args.by /\ m.role = "OWNER"
  /\ LastActorRows = {}

\* C21: a createTask or updateTaskAssignees request of a house member with
\* more than 10 assignee ids is answered 422 (UnprocessableEntity) and
\* creates or changes no row, and no task has more than 10 assignments.
AssigneeCapAnswers422 ==
  /\ \A t \in tasks :
       Cardinality({a \in assignees : a[1] = t.id}) <= AssigneeCap
  /\ ( /\ last.op \in {"createTask", "updateTaskAssignees"}
       /\ last.args.actor # 0
       /\ Len(last.args.ids) > AssigneeCap )
     => (last.result = "422" /\ Store = last.pre)

\* a membership of the house of the last call already bore the display name
\* the call brought
LastNameTaken ==
  \E m \in last.pre.members :
    m.houseId = last.args.house /\ m.displayName = last.args.name

TaskKind(status, completedAt, dueDate, priority, categoryId, houseId, createdById, taskAssignees) ==
  [status |-> status, completedAt |-> completedAt, dueDate |-> dueDate,
   priority |-> priority, categoryId |-> categoryId, houseId |-> houseId,
   createdById |-> createdById, assignees |-> taskAssignees]

TaskKinds ==
  { TaskKind("PENDING", Null, 1, "HIGH", 1, 1, 2, {3}),
    TaskKind("COMPLETED", 1, 1, "HIGH", Null, 1, 3, {2}),
    TaskKind("PENDING", Null, 2, "LOW", 1, 1, 2, {}),
    TaskKind("PENDING", Null, Null, "MEDIUM", Null, 1, 3, {2, 3}),
    TaskKind("PENDING", Null, 1, "HIGH", 2, 2, 4, {4}) }

TaskOfKind(id, kind) ==
  TaskRow(id, 1, Null, kind.status, kind.priority, kind.dueDate,
          kind.completedAt, kind.houseId, kind.categoryId, kind.createdById)

ListInit ==
  /\ houses = SeedHouses
  /\ houseNames = [h \in SeedHouses |-> NewHouseName]
  /\ members = SeedMembers
  /\ categories = SeedCategories
  /\ \E n \in 0..MaxListTasks : \E kinds \in [1..n -> TaskKinds] :
       /\ tasks = {TaskOfKind(i, kinds[i]) : i \in 1..n}
       /\ assignees = UNION {{<<i, m>> : m \in kinds[i].assignees} : i \in 1..n}
       /\ nextTaskId = n + 1
  /\ nextHouseId = 3
  /\ nextMemberId = 5
  /\ clock = 1
  /\ reqs = [r \in ReqIds |-> NoReq]
  /\ last = NoCall

\* new Date() of the list requests: after the due date 1, at the due date 2
ListTimes == {2}

\* the texts of ?page= and ?limit=
PageParams ==
  { Absent, QueryParam(TRUE, <<>>), QueryParam(TRUE, <<"a">>),
    QueryParam(TRUE, <<"0">>), QueryParam(TRUE, <<"1">>),
    QueryParam(TRUE, <<"2">>), QueryParam(TRUE, <<"3">>),
    QueryParam(TRUE, <<"-", "1">>), QueryParam(TRUE, <<"2", "a">>) }
LimitParams ==
  { Absent, QueryParam(TRUE, <<"a">>), QueryParam(TRUE, <<"0">>),
    QueryParam(TRUE, <<"1">>), QueryParam(TRUE, <<"2">>),
    QueryParam(TRUE, <<"-", "2">>), QueryParam(TRUE, <<"1", "0", "0">>),
    QueryParam(TRUE, <<"1", "0", "1">>) }

FilterQuery(status, priority, assignedToMe, createdByMe, categoryId, overdue) ==
  [NoQuery EXCEPT !.status = status, !.priority = priority,
                  !.assignedToMe = assignedToMe, !.createdByMe = createdByMe,
                  !.categoryId = categoryId, !.overdue = overdue]

PageQuery(status, page, limit) ==
  [NoQuery EXCEPT !.status = status, !.page = page, !.limit = limit]

ListNext ==
  \/ \E u \in {2, 3}, h \in SeedHouses, st \in {""} \cup TaskStatuses,
        pr \in {"", "HIGH"}, mine \in {"", "true"}, byMe \in {"", "true"},
        c \in {Undefined, 1}, od \in {"", "true"}, now \in ListTimes :
       getHouseTasksQuery(u, h, FilterQuery(st, pr, mine, byMe, c, od), now)
  \/ \E u \in {2}, h \in {1}, st \in {"", "PENDING"}, page \in PageParams,
        limit \in LimitParams, now \in ListTimes :
       getHouseTasksQuery(u, h, PageQuery(st, page, limit), now)
  \/ Respond

SpecList == ListInit /\ [][ListNext]_vars

\* a task satisfies every filter the last list request supplied
SatisfiesEveryFilter(task) ==
  LET f == last.args.filters
  IN /\ task.houseId = last.args.house
     /\ f.status # "" => task.status = f.status
     /\ f.priority # "" => task.priority = f.priority
     /\ f.categoryId # Undefined => task.categoryId = f.categoryId
     /\ f.assignedToMe => last.args.actor \in AssigneeIdsOf(assignees, task.id)
     /\ f.createdByMe => task.createdById = last.args.actor
     /\ f.overdue =>
          /\ task.status = "PENDING"
          /\ task.dueDate # Null
          /\ task.dueDate < last.args.now

\* C23: listTasks returns exactly the tasks of the house that satisfy every
\* supplied filter at once (status, priority, categoryId, assignedToMe,
\* createdByMe, overdue = PENDING with dueDate < now), for every combination
\* of filters; status=COMPLETED with overdue=true returns no task.
ListFiltersAreConjunctive ==
  ( /\ last.op = "getHouseTasks"
    /\ last.result = "ok"
    /\ last.args.query.page = Absent
    /\ last.args.query.limit = Absent )
  => /\ Range(last.returned) = {t.id : t \in {x \in tasks : SatisfiesEveryFilter(x)}}
     /\ (last.args.filters.status = "COMPLETED" /\ last.args.filters.overdue)
          => last.returned = <<>>

\* the text of a query parameter is absent or does not start with a number
NotNumeric(param) == ~param.given \/ parseInt(param.text).isNaN

\* C24: for every list request the schema accepts, the effective page is at
\* least 1 and the effective limit is between 1 and 100, so the offset
\* (page - 1) * limit is never negative; an absent or non-numeric page or
\* limit falls back to page 1 and limit 20.
PageAndLimitInRange ==
  last.op = "getHouseTasks" =>
    /\ last.args.filters.page >= 1
    /\ last.args.filters.limit >= 1
    /\ last.args.filters.limit <= 100
    /\ SkipOf(last.args.filters.page, last.args.filters.limit) >= 0
    /\ NotNumeric(last.args.query.page) => last.args.filters.page = 1
    /\ NotNumeric(last.args.query.limit) => last.args.filters.limit = 20

\* the filtered, sorted list the last list request paged through
LastFullList ==
  OrderedTasks({t \in tasks :
                  MatchesFilters(t, assignees, last.args.house, last.args.actor,
                                 last.args.filters, last.args.now)})

\* C25: listTasks with page p >= 1 and limit l >= 1 returns the tasks at
\* positions (p-1)*l+1 to min(p*l, total) of the filtered, sorted list, with
\* pagination.total the number of matching tasks and pagination.pages =
\* ceil(total / l); a page beyond the last returns the empty list with the
\* same total.
PageIsSliceOfList ==
  ( /\ last.op = "getHouseTasks"
    /\ last.result = "ok"
    /\ last.args.filters.page >= 1
    /\ last.args.filters.limit >= 1 )
  => LET p == last.args.filters.page
         l == last.args.filters.limit
         total == Len(LastFullList)
         first == (p - 1) * l + 1
         end == IF p * l < total THEN p * l ELSE total
     IN /\ Len(last.returned) = (IF end >= first THEN end - first + 1 ELSE 0)
        /\ \A i \in 1..Len(last.returned) :
             last.returned[i] = LastFullList[first + i - 1]
        /\ last.pagination.page = p
        /\ last.pagination.limit = l
        /\ last.pagination.total = total
        /\ last.pagination.pages * l >= total
        /\ (last.pagination.pages - 1) * l < total
        /\ (first > total => last.returned = <<>>)

\* three matching tasks, page 2 of limit 2: the third task alone, 2 pages
PageIsSliceWitness ==
  /\ last.op = "getHouseTasks"
  /\ last.result = "ok"
  /\ last.args.filters.page = 2
  /\ last.args.filters.limit = 2
  /\ last.pagination.total = 3
  /\ last.pagination.pages = 2
  /\ Len(last.returned) = 1
  /\ last.returned[1] = LastFullList[3]

\* --------------------------------------------- the fields of a task
\* PUT /:id/tasks/:taskId with every kind of body on a task of house 1 that
\* has a description, a due date, a category, a creator (member 2) and an
\* assignee (member 3); PUT .../status next to it.
UpdateInit ==
  /\ houses = SeedHouses
  /\ houseNames = [h \in SeedHouses |-> NewHouseName]
  /\ members = SeedMembers
  /\ categories = SeedCategories
  /\ tasks = {TaskRow(1, 1, 1, "PENDING", "MEDIUM", 2, Null, 1, 1, 2)}
  /\ assignees = {<<1, 3>>}
  /\ nextHouseId = 3
  /\ nextMemberId = 5
  /\ nextTaskId = 2
  /\ clock = 1
  /\ reqs = [r \in ReqIds |-> NoReq]
  /\ last = NoCall

\* bodies of PUT /:id/tasks/:taskId: each field absent, null or a value
UpdateTaskBody(title, description, priority, dueDate, categoryId) ==
  [title |-> title, description |-> description, priority |-> priority,
   dueDate |-> dueDate, categoryId |-> categoryId]

UpdateNext ==
  \/ \E u \in SeedUsers, t \in TaskIds, title \in {Undefined, 2},
        description \in {Undefined, Null, 2}, priority \in {"", "HIGH"},
        dueDate \in {Undefined, Null, 1, 3}, c \in {Undefined, Null, 1, 2} :
       updateTaskAt(u, 1, t, UpdateTaskBody(title, description, priority,
                                            dueDate, c), clock)
  \/ \E u \in {2}, t \in TaskIds, st \in TaskStatuses :
       updateTaskStatus(u, 1, t, st, clock)
  \/ Respond

SpecUpdate == UpdateInit /\ [][UpdateNext]_vars

\* the value a field has after an update that provides v: v itself, null
\* included, and the old value when v is absent
AfterUpdate(v, old) == IF v = Undefined THEN old ELSE v

\* the last updateTask came from the creator or an assignee of an existing
\* task of the house, with a category of the house and a due date in the
\* future where it gave any
LastUpdateIsValid ==
  /\ last.op = "updateTask"
  /\ \E t \in last.pre.tasks :
       /\ t.id = last.args.task /\ t.houseId = last.args.house
       /\ \/ t.createdById = last.args.actor
          \/ last.args.actor \in AssigneeIdsOf(last.pre.assignees, t.id)
  /\ \/ last.args.data.categoryId \in {Undefined, Null}
     \/ \E c \in categories :
          c.id = last.args.data.categoryId /\ c.houseId = last.args.house
  /\ \/ last.args.data.dueDate \in {Undefined, Null}
     \/ last.args.data.dueDate > last.args.now

\* C26: a successful updateTask changes only those of title, description,
\* priority, dueDate and categoryId that the request provides: an omitted
\* field keeps its value, an explicit null for description, dueDate or
\* categoryId clears the field, and status, completedAt, createdById,
\* houseId and the assignees are never changed by updateTask.
UpdateTaskIsPartial ==
  LastUpdateIsValid =>
    /\ last.result = "ok"
    /\ assignees = last.pre.assignees
    /\ \A old \in last.pre.tasks :
         IF old.id # last.args.task THEN old \in tasks
         ELSE \E new \in tasks :
                /\ new.id = old.id
                /\ new.title = AfterUpdate(last.args.data.title, old.title)
                /\ new.description =
                     AfterUpdate(last.args.data.description, old.description)
                /\ new.priority =
                     (IF last.args.data.priority = "" THEN old.priority
                      ELSE last.args.data.priority)
                /\ new.dueDate = AfterUpdate(last.args.data.dueDate, old.dueDate)
                /\ new.categoryId =
                     AfterUpdate(last.args.data.categoryId, old.categoryId)
                /\ new.status = old.status
                /\ new.completedAt = old.completedAt
                /\ new.createdById = old.createdById
                /\ new.houseId = old.houseId

\* ------------------------------------------- the status of a task
\* PUT /:id/tasks/:taskId/status on the task of UpdateInit, at times that
\* go on from call to call
StatusTimes == 1..(MaxClock + 2)

StatusNext ==
  \/ \E u \in SeedUsers, h \in SeedHouses, t \in TaskIds, st \in TaskStatuses,
        now \in StatusTimes : updateTaskStatus(u, h, t, st, now)
  \/ Respond

SpecStatus == UpdateInit /\ [][StatusNext]_vars

\* the task the last call addressed, as the call found it
LastTaskBefore ==
  {t \in last.pre.tasks : t.id = last.args.task /\ t.houseId = last.args.house}

\* C27: updateTaskStatus(COMPLETED) on a task that is COMPLETED already
\* succeeds and sets completedAt to the time of this call, whatever the time
\* of the first completion was; updateTaskStatus(PENDING) on a task that is
\* PENDING already succeeds and leaves completedAt null.
RepeatedStatusIsWrittenAgain ==
  last.op = "updateTaskStatus" =>
    \A old \in LastTaskBefore :
      ( /\ old.status = last.args.status
        /\ \/ old.createdById = last.args.actor
           \/ last.args.actor \in AssigneeIdsOf(last.pre.assignees, old.id) )
      => /\ last.result = "ok"
         /\ \E new \in tasks :
              /\ new = [old EXCEPT !.completedAt = new.completedAt]
              /\ new.completedAt =
                   (IF last.args.status = "COMPLETED" THEN last.args.now
                    ELSE Null)

\* a task completed at an earlier time has been completed again
CompletedAgainWitness ==
  /\ last.op = "updateTaskStatus"
  /\ last.result = "ok"
  /\ last.args.status = "COMPLETED"
  /\ \E old \in LastTaskBefore, new \in tasks :
       /\ old.status = "COMPLETED"
       /\ old.completedAt < last.args.now
       /\ new.id = old.id
       /\ new.completedAt = last.args.now

\* -------------------------------------------- deleting a house
\* HouseService.deleteHouse on the seeded houses and on an id of no house,
\* next to the creation of tasks with and without assignees
NoHouseId == 3

DeleteNext ==
  \/ \E u \in SeedUsers, h \in SeedHouses, ids \in FewAssigneeIdInputs,
        c \in {Undefined, 1} : createTask(u, h, CreateTaskInput(c, ids))
  \/ \E u \in SeedUsers, h \in SeedHouses, t \in TaskIds : deleteTask(u, h, t)
  \/ \E h \in SeedHouses \cup {NoHouseId} : deleteHouse(h)
  \/ Respond

SpecDelete == TaskInit /\ [][DeleteNext]_vars

LastIdsRepeatMembers ==
  /\ Len(last.args.ids) <= AssigneeCap
  /\ Cardinality(Range(last.args.ids)) < Len(last.args.ids)
  /\ \A id \in Range(last.args.ids) :
       \E m \in last.pre.members : m.id = id /\ m.houseId = last.args.house

\* C29: createTask and updateTaskAssignees reject with 422, and change
\* nothing, every assigneeIds list that contains a member id more than once,
\* also when each id is a membership of the house: createTask by any member,
\* updateTaskAssignees by the creator or an assignee of the task.
RepeatedAssigneeRejected ==
  /\ (last.op = "createTask" /\ last.args.actor # 0 /\ LastIdsRepeatMembers
        /\ last.args.cat = Undefined)
       => (last.result = "422" /\ Store = last.pre)
  /\ (last.op = "updateTaskAssignees" /\ LastIdsRepeatMembers
        /\ \E t \in LastTaskBefore :
             \/ t.createdById = last.args.actor
             \/ last.args.actor \in AssigneeIdsOf(last.pre.assignees, t.id))
       => (last.result = "422" /\ Store = last.pre)
  /\ (last.op \in {"createTask", "updateTaskAssignees"} /\ LastIdsRepeatMembers)
       => (last.result # "ok" /\ Store = last.pre)

\* the creator of a task has sent the same member of the house twice
RepeatedAssigneeWitness ==
  /\ last.op = "updateTaskAssignees"
  /\ last.result = "422"
  /\ LastIdsRepeatMembers
  /\ \E t \in LastTaskBefore : t.createdById = last.args.actor

\* ------------- updateTask and updateTaskStatus, one store call per step
\* requireHouseMember, then getTaskById with canUserModifyTask, then
\* prisma.task.update: three awaited store calls of one request, between
\* which other requests run. updateTask carries the body { priority: HIGH }.
WriteOps == {"updateTask", "updateTaskStatus"}

WrVarsUnchanged ==
  UNCHANGED <<houses, houseNames, members, categories, assignees, nextHouseId,
              nextMemberId, nextTaskId, last>>

\* the request arrives: authenticate, requireHouseMember
WrStart(r, op, userId, houseId, taskId, status) ==
  /\ reqs[r].pc = "idle"
  /\ LET houseMember == requireHouseMember(members, userId, houseId)
         q == [NoReq EXCEPT !.op = op, !.house = houseId, !.user = userId,
                            !.task = taskId, !.status = status,
                            !.actor = AttachedId(houseMember)]
     IN IF houseMember = {}
        THEN reqs' = [reqs EXCEPT ![r] = [q EXCEPT !.pc = "done", !.result = "403"]]
        ELSE reqs' = [reqs EXCEPT ![r] = [q EXCEPT !.pc = "check"]]
  /\ UNCHANGED <<tasks, clock>>
  /\ WrVarsUnchanged

\* await this.getTaskById(taskId, houseId); canUserModifyTask
WrCheck(r) ==
  /\ reqs[r].pc = "check"
  /\ LET q == reqs[r]
         found == FindTask(tasks, q.task, q.house)
     IN IF found = {}
        THEN reqs' = [reqs EXCEPT ![r].pc = "done", ![r].result = "404"]
        ELSE IF ~canUserModifyTask(CHOOSE t \in found : TRUE,
                                   AssigneeIdsOf(assignees, q.task), q.actor)
        THEN reqs' = [reqs EXCEPT ![r].pc = "done", ![r].result = "403"]
        ELSE reqs' = [reqs EXCEPT ![r].pc = "write"]
  /\ UNCHANGED <<tasks, clock>>
  /\ WrVarsUnchanged

\* await prisma.task.update({ where: { id: taskId }, data }); a task that is
\* gone makes the update throw
WrWrite(r, now) ==
  /\ reqs[r].pc = "write"
  /\ now >= clock
  /\ clock' = now
  /\ LET q == reqs[r]
         found == {t \in tasks : t.id = q.task}
     IN IF found = {}
        THEN /\ reqs' = [reqs EXCEPT ![r].pc = "done", ![r].result = "500"]
             /\ UNCHANGED tasks
        ELSE LET task == CHOOSE t \in found : TRUE
                 written == IF q.op = "updateTaskStatus"
                            THEN WithStatus(task, q.status, now)
                            ELSE UpdatedTask(task, [UpdateTaskInput(Undefined)
                                                      EXCEPT !.priority = "HIGH"])
             IN /\ tasks' = (tasks \ {task}) \cup {written}
                /\ reqs' = [reqs EXCEPT ![r].pc = "done", ![r].result = "ok",
                                        ![r].now = now]
  /\ WrVarsUnchanged

\* res.json(...) / errorHandler
WrRespond(r) ==
  /\ reqs[r].pc = "done"
  /\ reqs' = [reqs EXCEPT ![r] = NoReq]
  /\ UNCHANGED <<tasks, clock>>
  /\ WrVarsUnchanged

\* the other requests: whole calls of updateTaskAssignees and removeMember
\* between the steps
StaleNext ==
  \/ \E r \in TxIds, op \in WriteOps, u \in SeedUsers :
       WrStart(r, op, u, 1, 1, "COMPLETED")
  \/ \E r \in TxIds : WrCheck(r)
  \/ \E r \in TxIds, now \in Times : WrWrite(r, now)
  \/ \E r \in TxIds : WrRespond(r)
  \/ \E u \in SeedUsers, ids \in AssignTxInputs : updateTaskAssignees(u, 1, 1, ids)
  \/ \E u \in SeedUsers : removeMember(1, u)
  \/ Respond

SpecStale == AssignInit /\ [][StaleNext]_vars

\* C30: under any interleaving of requests, a write committed by updateTask
\* or updateTaskStatus is made by an actor who, when the write is applied,
\* still is the creator of the task or one of its assignees and still is a
\* member of the house.
WriterStillPermitted ==
  [][ \A r \in TxIds :
        ( /\ reqs[r].op \in WriteOps
          /\ reqs[r].pc = "write"
          /\ reqs'[r].pc = "done"
          /\ reqs'[r].result = "ok" )
        => /\ \E m \in members :
                m.id = reqs[r].actor /\ m.houseId = reqs[r].house
           /\ \E t \in tasks :
                /\ t.id = reqs[r].task
                /\ \/ t.createdById = reqs[r].actor
                   \/ reqs[r].actor \in AssigneeIdsOf(assignees, t.id)
    ]_vars
====
